---- MODULE Spec2Model ----
(***************************************************************************)
(* PubTator annotation editor: the segmentation engine                     *)
(* (components/textHighlight.jsx), the format codec (utils/pubtatorUtils), *)
(* the annotation store (hooks/useAnnotationManager) and the editor        *)
(* handlers of App.jsx.                                                    *)
(*                                                                         *)
(* Strings are sequences of one-character strings.  Offsets are 0-based    *)
(* and half-open as in the JavaScript source; sequences are 1-based, so    *)
(* the character at offset i is text[i + 1].                               *)
(***************************************************************************)
EXTENDS Integers, Sequences, FiniteSets, TLC

VARIABLES
    combinedText,        \* processTextSegments: the text argument
    annotations,         \* processTextSegments: the annotation list argument
    regexPattern,        \* processTextSegments: the search pattern argument
    segDone,             \* TRUE once processTextSegments has returned
    potentialPositions,  \* the value createPotentialMatches returned (step 3)
    segments,            \* the value processTextSegments returned
    scanPc,              \* processTextSegments run loop by loop: the loop it is in
    scanEntry,           \* createPotentialMatches: the entry of sortedEntries in turn
    scanLastIndex,       \* lastIndex of the RegExp of the running loop
    scanMatch,           \* createRegexMatches: match, what the last exec returned
    scanPotential,       \* createPotentialMatches: potentialPositions
    scanRegex,           \* createRegexMatches: regexPositions
    codecFrom,           \* the codec starts from "docs" or from "text"
    codecPc,             \* the codec holds "docs", a "text" or a "parsed" result
    codecDocs,           \* generateExportContent: the documents argument
    codecLines,          \* the lines the text given to parsePubtator is made of
    codecContent,        \* the PubTator text
    codecParsed,         \* the value parsePubtator returned
    codecExported,       \* generateExportContent of the documents parsePubtator returned
    documents,           \* useAnnotationManager: the documents state
    currentDocIndex,     \* useAnnotationManager: the index of the current document
    knownEntityTypes,    \* useAnnotationManager: the entity type registry
    originalFilename,    \* App: the name the export is saved under
    isEditMode,          \* App: the mode of the annotation dialog
    currentAnnotation,   \* App: the annotation the dialog edits, or null
    dialogOpen,          \* TRUE while the modal annotation dialog is shown
    reads,               \* the files whose FileReader has not fired onload yet
    lastOp,              \* what the last handler of the editor did
    savePc,              \* saveToFile: the await it is suspended at
    saveDocuments,       \* the documents state saveToFile was called with
    saveContent,         \* saveToFile: the content constant
    saveFilename,        \* saveToFile: originalFilename of the render it closes over
    writable,            \* what was written to the writable stream
    fileWritten,         \* what the picked file holds after close()
    downloaded,          \* the download downloadFile started
    showSaveFilePicker   \* 'showSaveFilePicker' in window

scanVars == <<scanPc, scanEntry, scanLastIndex, scanMatch, scanPotential, scanRegex>>

segVars == <<combinedText, annotations, regexPattern, segDone,
             potentialPositions, segments, scanVars>>

codecVars == <<codecFrom, codecPc, codecDocs, codecLines, codecContent, codecParsed,
               codecExported>>

appVars == <<documents, currentDocIndex, knownEntityTypes, originalFilename,
             isEditMode, currentAnnotation, dialogOpen, reads, lastOp>>

saveVars == <<savePc, saveDocuments, saveContent, saveFilename, writable,
              fileWritten, downloaded, showSaveFilePicker>>

vars == <<segVars, codecVars, appVars, saveVars>>

----------------------------------------------------------------------------
(* Bounds and input alphabets *)

\* total size of one processTextSegments input: the text length, two
\* offsets per annotation and the pattern's size
MaxInputSize == 9

\* characters of the combined texts: a letter and a digit; "a" only arises
\* as the lower case of "A"
Chars == {"A", "5"}

EntityTypes == {"Gene", "Protein"}

Undefined == "undefined"

\* the longest annotation text that is searched for potential matches
MaxEligibleLength == 50

----------------------------------------------------------------------------
(* JavaScript string primitives *)

Digits == {"0", "1", "2", "3", "4", "5", "6", "7", "8", "9"}

LowerChar(c) == IF c = "A" THEN "a" ELSE c

\* the case-insensitive flag compares characters by their upper case
Canonicalize(c) == IF c = "a" THEN "A" ELSE c

toLowerCase(s) == [i \in 1..Len(s) |-> LowerChar(s[i])]

\* /\d/.test(s)
hasDigit(s) == \E i \in 1..Len(s) : s[i] \in Digits

Clamp(x, n) == IF x < 0 THEN 0 ELSE IF x > n THEN n ELSE x

\* String.prototype.substring: both bounds are clamped to [0, length] and
\* swapped when start > end
substring(text, start, end) ==
    LET s == Clamp(start, Len(text))
        e == Clamp(end, Len(text))
        lo == IF s <= e THEN s ELSE e
        hi == IF s <= e THEN e ELSE s
    IN  SubSeq(text, lo + 1, hi)

\* Array.prototype.sort with the comparator (a, b) => key(a) - key(b): a
\* stable ascending sort; keys[i] is the key of s[i]
StableSortByKey(s, keys) ==
    LET n == Len(s)
        rank(i) == Cardinality({j \in 1..n : \/ keys[j] < keys[i]
                                             \/ keys[j] = keys[i] /\ j < i}) + 1
    IN  [k \in 1..n |-> s[CHOOSE i \in 1..n : rank(i) = k]]

----------------------------------------------------------------------------
(* Regular expressions.  A pattern string is modelled by what the RegExp   *)
(* constructor makes of it: kind "empty" is the empty string, "invalid" a  *)
(* string the constructor rejects with a SyntaxError, "literal" a string   *)
(* of ordinary characters, matched case-insensitively (flags 'gi').        *)

NoPattern == [kind |-> "empty", lit |-> <<>>]
InvalidPattern == [kind |-> "invalid", lit |-> <<>>]
LiteralPattern(s) == [kind |-> "literal", lit |-> s]

\* does the literal match at offset i of text
MatchesAt(text, lit, i) ==
    /\ i + Len(lit) <= Len(text)
    /\ \A k \in 1..Len(lit) : Canonicalize(text[i + k]) = Canonicalize(lit[k])

\* RegExp.prototype.exec of a global literal pattern: the offset of the
\* leftmost match at or after lastIndex, -1 for null
RegExpExec(text, lit, lastIndex) ==
    LET hits == {i \in lastIndex..Len(text) : MatchesAt(text, lit, i)}
    IN  IF hits = {} THEN -1
        ELSE CHOOSE i \in hits : \A j \in hits : i <= j

\* the pattern c*, for an ordinary character c: zero or more c, greedy
StarPattern(c) == [kind |-> "star", lit |-> <<c>>]

\* the number of characters from offset i on that are c
RECURSIVE RunLength(_, _, _)
RunLength(text, c, i) ==
    IF i < Len(text) /\ Canonicalize(text[i + 1]) = Canonicalize(c)
    THEN 1 + RunLength(text, c, i + 1)
    ELSE 0

NoMatch == [index |-> -1, end |-> -1]

\* RegExp.prototype.exec of a global pattern: the span of the leftmost
\* match at or after lastIndex, or null. c* matches at lastIndex itself,
\* the empty string when the character there is not c.
PatternExec(text, pattern, lastIndex) ==
    IF pattern.kind = "star"
    THEN IF lastIndex > Len(text) THEN NoMatch
         ELSE [index |-> lastIndex,
               end |-> lastIndex + RunLength(text, pattern.lit[1], lastIndex)]
    ELSE LET index == RegExpExec(text, pattern.lit, lastIndex)
         IN  IF index = -1 THEN NoMatch
             ELSE [index |-> index, end |-> index + Len(pattern.lit)]

\* escapeRegExp followed by new RegExp(..., 'gi'): every special character
\* is escaped, so the annotation text is matched literally
escapeRegExp(string) == LiteralPattern(string)

----------------------------------------------------------------------------
(* textHighlight.jsx *)

rangesOverlap(start1, end1, start2, end2) == start1 < end2 /\ end1 > start2

createAnnotationPositions(annos) ==
    [i \in 1..Len(annos) |->
        [start |-> annos[i].start, end |-> annos[i].end,
         type |-> "annotation", entityType |-> annos[i].type]]

\* Map.prototype.set on a Map kept as a sequence of <<key, value>> in
\* insertion order: an existing key keeps its place and takes the new value
MapSet(map, key, value) ==
    IF \E i \in 1..Len(map) : map[i][1] = key
    THEN [i \in 1..Len(map) |-> IF map[i][1] = key THEN <<key, value>> ELSE map[i]]
    ELSE Append(map, <<key, value>>)

\* the filter without the digit rule for one-character texts
IsEligibleText_NoDigitRule(text) == Len(text) >= 1 /\ Len(text) <= MaxEligibleLength

\* the filter of createUniqueTextMap
IsEligibleText(text) ==
    LET hasNumber == IF Len(text) < 2 THEN hasDigit(text) ELSE TRUE
    IN  hasNumber /\ Len(text) >= 1 /\ Len(text) <= MaxEligibleLength

RECURSIVE UniqueTextMapFrom(_, _, _)
UniqueTextMapFrom(annos, i, uniqueTexts) ==
    IF i > Len(annos) THEN uniqueTexts
    ELSE UniqueTextMapFrom(annos, i + 1,
            IF IsEligibleText(annos[i].text)
            THEN MapSet(uniqueTexts, toLowerCase(annos[i].text), annos[i].type)
            ELSE uniqueTexts)

createUniqueTextMap(annos) == UniqueTextMapFrom(annos, 1, <<>>)

OverlapsAny(matchStart, matchEnd, positions) ==
    \E k \in 1..Len(positions) :
        rangesOverlap(matchStart, matchEnd, positions[k].start, positions[k].end)

\* the while loop of createPotentialMatches for one map entry
RECURSIVE PotentialScan(_, _, _, _, _, _)
PotentialScan(text, annoText, entityType, lastIndex, existingPositions, potential) ==
    LET index == RegExpExec(text, escapeRegExp(annoText).lit, lastIndex)
        matchStart == index
        matchEnd == index + Len(annoText)
        overlapsExisting == OverlapsAny(matchStart, matchEnd, existingPositions \o potential)
    IN  IF index = -1 THEN potential
        ELSE PotentialScan(text, annoText, entityType, matchEnd, existingPositions,
                IF overlapsExisting THEN potential
                ELSE Append(potential,
                        [start |-> matchStart, end |-> matchEnd,
                         type |-> "potential", entityType |-> entityType]))

\* the entries left in insertion order
sortedEntries_Unsorted(uniqueTexts) == uniqueTexts

\* the entries of the map, longest text first (stable)
sortedEntries(uniqueTexts) ==
    StableSortByKey(uniqueTexts, [i \in 1..Len(uniqueTexts) |-> 0 - Len(uniqueTexts[i][1])])

RECURSIVE PotentialMatchesFrom(_, _, _, _, _)
PotentialMatchesFrom(text, entries, i, existingPositions, potential) ==
    IF i > Len(entries) THEN potential
    ELSE PotentialMatchesFrom(text, entries, i + 1, existingPositions,
            PotentialScan(text, entries[i][1], entries[i][2], 0,
                          existingPositions, potential))

createPotentialMatches(text, uniqueTexts, existingPositions) ==
    PotentialMatchesFrom(text, sortedEntries(uniqueTexts), 1, existingPositions, <<>>)

\* the while loop of createRegexMatches
RECURSIVE RegexScan(_, _, _, _, _)
RegexScan(text, lit, lastIndex, existingPositions, regexPositions) ==
    LET index == RegExpExec(text, lit, lastIndex)
        matchStart == index
        matchEnd == index + Len(lit)
        overlapsOther == OverlapsAny(matchStart, matchEnd, existingPositions)
    IN  IF index = -1 THEN regexPositions
        ELSE RegexScan(text, lit, matchEnd, existingPositions,
                IF overlapsOther THEN regexPositions
                ELSE Append(regexPositions,
                        [start |-> matchStart, end |-> matchEnd,
                         type |-> "regex", entityType |-> Undefined]))

\* createRegexMatches matching the letter a when the pattern does not
\* compile
createRegexMatches_InvalidMatches(text, pattern, existingPositions) ==
    IF pattern.kind = "empty" THEN <<>>
    ELSE IF pattern.kind = "invalid"
         THEN RegexScan(text, <<"a">>, 0, existingPositions, <<>>)
    ELSE RegexScan(text, pattern.lit, 0, existingPositions, <<>>)

createRegexMatches(text, pattern, existingPositions) ==
    IF pattern.kind = "empty" THEN <<>>
    ELSE IF pattern.kind = "invalid" THEN <<>>   \* SyntaxError, caught
    ELSE RegexScan(text, pattern.lit, 0, existingPositions, <<>>)

\* a plain segment carries no type, start or end
PlainSegment(text) ==
    [text |-> text, highlighted |-> "false", type |-> Undefined,
     start |-> -1, end |-> -1]

RECURSIVE TextSegmentsFrom(_, _, _, _, _)
TextSegmentsFrom(text, positions, i, lastEnd, segs) ==
    IF i > Len(positions)
    THEN IF lastEnd < Len(text)
         THEN Append(segs, PlainSegment(substring(text, lastEnd, Len(text))))
         ELSE segs
    ELSE LET pos == positions[i]
             before == IF pos.start > lastEnd
                       THEN Append(segs, PlainSegment(substring(text, lastEnd, pos.start)))
                       ELSE segs
             seg == [text |-> substring(text, pos.start, pos.end),
                     highlighted |-> IF pos.type = "annotation" THEN "true" ELSE pos.type,
                     type |-> pos.entityType,
                     start |-> pos.start, end |-> pos.end]
         IN  TextSegmentsFrom(text, positions, i + 1, pos.end, Append(before, seg))

createTextSegments(text, positions) == TextSegmentsFrom(text, positions, 1, 0, <<>>)

Abs(x) == IF x < 0 THEN 0 - x ELSE x

\* the sum of the lengths of the segments before segment i
PositionBefore(segs, i) ==
    LET RECURSIVE Sum(_)
        Sum(k) == IF k = 0 THEN 0 ELSE Sum(k - 1) + Len(segs[k].text)
    IN  Sum(i - 1)

updateSegmentsWithPositions(segs, annos, text) ==
    [i \in 1..Len(segs) |->
        LET segment == segs[i]
            currentPosition == PositionBefore(segs, i)
            matching == {k \in 1..Len(annos) :
                            /\ substring(text, annos[k].start, annos[k].end) = segment.text
                            /\ Abs(annos[k].start - currentPosition) < 5}
            first == CHOOSE k \in matching : \A j \in matching : k <= j
        IN  IF segment.highlighted = "true" /\ matching # {}
            THEN [segment EXCEPT !.start = annos[first].start,
                                 !.end = annos[first].end]
            ELSE [segment EXCEPT !.start = currentPosition,
                                 !.end = currentPosition + Len(segment.text)]]

processTextSegments(text, annos, pattern) ==
    IF text = <<>> THEN <<>>
    ELSE LET annotationPositions == createAnnotationPositions(annos)
             uniqueAnnotatedTexts == createUniqueTextMap(annos)
             potential == createPotentialMatches(text, uniqueAnnotatedTexts,
                                                 annotationPositions)
             allPositions == annotationPositions \o potential
             regexPositions == createRegexMatches(text, pattern, allPositions)
             unsorted == annotationPositions \o potential \o regexPositions
             positions == StableSortByKey(unsorted,
                               [i \in 1..Len(unsorted) |-> unsorted[i].start])
         IN  updateSegmentsWithPositions(createTextSegments(text, positions),
                                         annos, text)

----------------------------------------------------------------------------
(* pubtatorUtils: parsePubtator and generateExportContent *)

NL == "\n"
TAB == "\t"
BAR == "|"

\* normalizedId: null; no string is this value, whose one element is not a
\* character
Null == <<"null">>

\* the number NaN, which no offset of the inputs equals
NaN == -1000000

WhiteSpace == {" ", TAB, NL, "\r"}

\* line.trim() === ''
IsBlank(line) == \A i \in 1..Len(line) : line[i] \in WhiteSpace

\* String.prototype.includes
includes(s, sub) ==
    \E i \in 0..(Len(s) - Len(sub)) : SubSeq(s, i + 1, i + Len(sub)) = sub

\* String.prototype.split on a one-character separator
RECURSIVE SplitFrom(_, _, _, _)
SplitFrom(s, sep, i, current) ==
    IF i > Len(s) THEN <<current>>
    ELSE IF s[i] = sep THEN <<current>> \o SplitFrom(s, sep, i + 1, <<>>)
    ELSE SplitFrom(s, sep, i + 1, Append(current, s[i]))

split(s, sep) == SplitFrom(s, sep, 1, <<>>)

DigitValue(c) ==
    CASE c = "0" -> 0 [] c = "1" -> 1 [] c = "2" -> 2 [] c = "3" -> 3
      [] c = "4" -> 4 [] c = "5" -> 5 [] c = "6" -> 6 [] c = "7" -> 7
      [] c = "8" -> 8 [] c = "9" -> 9

DigitChar(d) == CHOOSE c \in Digits : DigitValue(c) = d

\* the decimal digits at the head of s, as a number
RECURSIVE LeadingNumber(_, _, _)
LeadingNumber(s, i, acc) ==
    IF i > Len(s) \/ s[i] \notin Digits THEN acc
    ELSE LeadingNumber(s, i + 1, 10 * acc + DigitValue(s[i]))

RECURSIVE SkipWhiteSpace(_)
SkipWhiteSpace(s) ==
    IF s # <<>> /\ Head(s) \in WhiteSpace THEN SkipWhiteSpace(Tail(s)) ELSE s

\* parseInt(s): leading white space, an optional sign, then the longest
\* run of decimal digits; NaN when there is no digit
parseInt(s) ==
    LET t == SkipWhiteSpace(s)
        negative == t # <<>> /\ Head(t) = "-"
        signed == t # <<>> /\ Head(t) \in {"-", "+"}
        body == IF signed THEN Tail(t) ELSE t
    IN  IF body = <<>> \/ Head(body) \notin Digits THEN NaN
        ELSE IF negative THEN 0 - LeadingNumber(body, 1, 0)
        ELSE LeadingNumber(body, 1, 0)

\* the text of a number in a template literal
RECURSIVE NaturalToString(_)
NaturalToString(n) ==
    IF n < 10 THEN <<DigitChar(n)>>
    ELSE Append(NaturalToString(n \div 10), DigitChar(n % 10))

numberToString(n) ==
    IF n = NaN THEN <<"N", "a", "N">>
    ELSE IF n < 0 THEN <<"-">> \o NaturalToString(0 - n)
    ELSE NaturalToString(n)

\* the object an annotation line of at least 5 fields is parsed to, with
\* the 6th field dropped
ParseAnnotationLine_NoNormalizedId(parts) ==
    [id |-> parts[1], start |-> parseInt(parts[2]), end |-> parseInt(parts[3]),
     text |-> parts[4], type |-> parts[5], normalizedId |-> Null]

\* the object an annotation line of at least 5 fields is parsed to
ParseAnnotationLine(parts) ==
    [id |-> parts[1], start |-> parseInt(parts[2]), end |-> parseInt(parts[3]),
     text |-> parts[4], type |-> parts[5],
     normalizedId |-> IF Len(parts) >= 6 THEN parts[6] ELSE Null]

\* Set.prototype.add on a Set kept as a sequence in insertion order
SetAdd_Always(set, x) == Append(set, x)

SetAdd(set, x) ==
    IF \E i \in 1..Len(set) : set[i] = x THEN set ELSE Append(set, x)

NoDoc == [none |-> TRUE]

\* the state of the loop of parsePubtator: docs, currentDoc, entityTypes and
\* whether a TypeError was thrown
ParseStart == [docs |-> <<>>, currentDoc |-> NoDoc, entityTypes |-> <<>>,
               thrown |-> FALSE]

\* the body of the loop with a line of fewer than 5 fields aborting the
\* parse
ParseLine_ShortLineThrows(st, line) ==
    IF st.thrown THEN st
    ELSE IF includes(line, <<BAR, "t", BAR>>)
    THEN LET parts == split(line, BAR)
         IN  [st EXCEPT
                !.docs = IF st.currentDoc # NoDoc THEN Append(@, st.currentDoc) ELSE @,
                !.currentDoc = [id |-> parts[1], title |-> parts[3],
                                abstract |-> <<>>, annotations |-> <<>>]]
    ELSE IF includes(line, <<BAR, "a", BAR>>)
    THEN LET parts == split(line, BAR)
         IN  IF st.currentDoc = NoDoc THEN [st EXCEPT !.thrown = TRUE]
             ELSE [st EXCEPT !.currentDoc.abstract = parts[3]]
    ELSE IF ~IsBlank(line)
    THEN LET parts == split(line, TAB)
         IN  IF Len(parts) >= 5 /\ st.currentDoc # NoDoc
             THEN [st EXCEPT
                     !.entityTypes = SetAdd(@, parts[5]),
                     !.currentDoc.annotations = Append(@, ParseAnnotationLine(parts))]
             ELSE [st EXCEPT !.thrown = TRUE]
    ELSE st

\* the body of the loop with a guard on currentDoc: an abstract line or an
\* annotation line before any title line is skipped
ParseLine_GuardsCurrentDoc(st, line) ==
    IF st.thrown THEN st
    ELSE IF includes(line, <<BAR, "t", BAR>>)
    THEN LET parts == split(line, BAR)
         IN  [st EXCEPT
                !.docs = IF st.currentDoc # NoDoc THEN Append(@, st.currentDoc) ELSE @,
                !.currentDoc = [id |-> parts[1], title |-> parts[3],
                                abstract |-> <<>>, annotations |-> <<>>]]
    ELSE IF st.currentDoc = NoDoc THEN st
    ELSE IF includes(line, <<BAR, "a", BAR>>)
    THEN LET parts == split(line, BAR)
         IN  [st EXCEPT !.currentDoc.abstract = parts[3]]
    ELSE IF ~IsBlank(line)
    THEN LET parts == split(line, TAB)
         IN  IF Len(parts) >= 5
             THEN [st EXCEPT
                     !.entityTypes = SetAdd(@, parts[5]),
                     !.currentDoc.annotations = Append(@, ParseAnnotationLine(parts))]
             ELSE st
    ELSE st

\* the body of the loop of parsePubtator for one line
ParseLine(st, line) ==
    IF st.thrown THEN st
    ELSE IF includes(line, <<BAR, "t", BAR>>)
    THEN LET parts == split(line, BAR)
         IN  [st EXCEPT
                !.docs = IF st.currentDoc # NoDoc THEN Append(@, st.currentDoc) ELSE @,
                !.currentDoc = [id |-> parts[1], title |-> parts[3],
                                abstract |-> <<>>, annotations |-> <<>>]]
    ELSE IF includes(line, <<BAR, "a", BAR>>)
    THEN LET parts == split(line, BAR)
         IN  IF st.currentDoc = NoDoc THEN [st EXCEPT !.thrown = TRUE]
             ELSE [st EXCEPT !.currentDoc.abstract = parts[3]]
    ELSE IF ~IsBlank(line)
    THEN LET parts == split(line, TAB)
         IN  IF Len(parts) >= 5
             THEN IF st.currentDoc = NoDoc
                  THEN [st EXCEPT !.entityTypes = SetAdd(@, parts[5]),
                                  !.thrown = TRUE]
                  ELSE [st EXCEPT
                          !.entityTypes = SetAdd(@, parts[5]),
                          !.currentDoc.annotations = Append(@, ParseAnnotationLine(parts))]
             ELSE st
    ELSE st

RECURSIVE ParseLines(_, _, _)
ParseLines(st, lines, i) ==
    IF i > Len(lines) THEN st ELSE ParseLines(ParseLine(st, lines[i]), lines, i + 1)

\* the lines of the content that are not blank
NonBlankLines(content) == SelectSeq(split(content, NL), LAMBDA line : ~IsBlank(line))

\* parsePubtator without the push of the last document after the loop
parsePubtator_NoFinalPush(content) ==
    LET st == ParseLines(ParseStart, NonBlankLines(content), 1)
    IN  IF st.thrown
        THEN [status |-> "throws", docs |-> <<>>, entityTypes |-> <<>>]
        ELSE [status |-> "ok", docs |-> st.docs, entityTypes |-> st.entityTypes]

\* parsePubtator: the returned object, or the TypeError it throws
parsePubtator(content) ==
    LET st == ParseLines(ParseStart, NonBlankLines(content), 1)
    IN  IF st.thrown
        THEN [status |-> "throws", docs |-> <<>>, entityTypes |-> <<>>]
        ELSE [status |-> "ok",
              docs |-> IF st.currentDoc # NoDoc THEN Append(st.docs, st.currentDoc)
                       ELSE st.docs,
              entityTypes |-> st.entityTypes]

\* the line of one annotation
AnnotationLine_NoNormalizedId(anno) ==
    anno.id \o <<TAB>> \o numberToString(anno.start) \o <<TAB>>
        \o numberToString(anno.end) \o <<TAB>> \o anno.text \o <<TAB>> \o anno.type

AnnotationLine(anno) ==
    anno.id \o <<TAB>> \o numberToString(anno.start) \o <<TAB>>
        \o numberToString(anno.end) \o <<TAB>> \o anno.text \o <<TAB>> \o anno.type
        \o (IF anno.normalizedId # Null /\ anno.normalizedId # <<>>
            THEN <<TAB>> \o anno.normalizedId ELSE <<>>)

RECURSIVE AnnotationLinesFrom(_, _)
AnnotationLinesFrom(annos, i) ==
    IF i > Len(annos) THEN <<>>
    ELSE AnnotationLine(annos[i]) \o <<NL>> \o AnnotationLinesFrom(annos, i + 1)

\* the block of one document
DocumentBlock(doc) ==
    doc.id \o <<BAR, "t", BAR>> \o doc.title \o <<NL>>
        \o doc.id \o <<BAR, "a", BAR>> \o doc.abstract \o <<NL>>
        \o AnnotationLinesFrom(doc.annotations, 1)
        \o <<NL>>

RECURSIVE ExportFrom(_, _)
ExportFrom(docs, i) ==
    IF i > Len(docs) THEN <<>> ELSE DocumentBlock(docs[i]) \o ExportFrom(docs, i + 1)

generateExportContent(docs) == ExportFrom(docs, 1)

----------------------------------------------------------------------------
(* Inputs of the codec *)

\* documents plus annotations of one document set given to
\* generateExportContent
MaxCodecSize == 3

\* lines of one text given to parsePubtator
MaxLines == 5

DocIds == {<<"1">>, <<"2">>}
Titles == {<<"T">>}
Abstracts == {<<>>, <<"B">>}
TypeNames == {<<"G">>, <<"D">>}
\* an ordinary annotation text, and one holding the tag of an abstract line
AnnotationTexts == {<<"x">>, <<BAR, "a", BAR>>}
NormalizedIds == {Null, <<>>, <<"M">>}
Offsets == {<<0, 1>>, <<5, 12>>}

\* the annotations of a document, but for their id
AnnotationValues ==
    {[start |-> o[1], end |-> o[2], text |-> t, type |-> ty, normalizedId |-> n] :
        o \in Offsets, t \in AnnotationTexts, ty \in TypeNames, n \in NormalizedIds}

DocumentShells ==
    {[id |-> id, title |-> title, abstract |-> abstract] :
        id \in DocIds, title \in Titles, abstract \in Abstracts}

RECURSIVE SumTo(_, _)
SumTo(counts, i) == IF i = 0 THEN 0 ELSE SumTo(counts, i - 1) + counts[i]

\* the numbers of annotations of n documents, n documents and their
\* annotations being at most budget
AnnotationCounts(n, budget) ==
    {counts \in [1..n -> 0..budget] : n + SumTo(counts, n) <= budget}

\* the documents of the shells, document i holding counts[i] of the
\* annotations of all, in order, each with the id of its document
DocumentsOf(shells, counts, all) ==
    [i \in 1..Len(shells) |->
        [id |-> shells[i].id, title |-> shells[i].title,
         abstract |-> shells[i].abstract,
         annotations |->
            [k \in 1..counts[i] |->
                LET a == all[SumTo(counts, i - 1) + k]
                IN  [id |-> shells[i].id, start |-> a.start, end |-> a.end,
                     text |-> a.text, type |-> a.type,
                     normalizedId |-> a.normalizedId]]]]

\* the lines a text is made of
TitleLine(id, title) == [kind |-> "title", fields |-> <<id, title>>]
AbstractLine(id, abstract) == [kind |-> "abstract", fields |-> <<id, abstract>>]
AnnotationFields(fields) == [kind |-> "annotation", fields |-> fields]
BlankLine == [kind |-> "blank", fields |-> <<>>]

LinePool ==
    {TitleLine(<<"1">>, <<"T">>), TitleLine(<<"2">>, <<"T">>),
     AbstractLine(<<"1">>, <<"B">>),
     AnnotationFields(<<<<"1">>, <<"0">>, <<"1">>, <<"x">>, <<"G">>>>),
     AnnotationFields(<<<<"1">>, <<"0">>, <<"1">>, <<"x">>, <<"D">>>>),
     AnnotationFields(<<<<"1">>, <<"5">>, <<"1", "2">>, <<"x">>, <<"G">>, <<"M">>>>),
     AnnotationFields(<<<<"1">>, <<"0">>, <<"1">>, <<"Z">>>>),
     BlankLine}

RECURSIVE Join(_, _, _)
Join(fields, sep, i) ==
    IF i > Len(fields) THEN <<>>
    ELSE fields[i] \o (IF i < Len(fields) THEN <<sep>> ELSE <<>>) \o Join(fields, sep, i + 1)

LineText(line) ==
    CASE line.kind = "title" -> line.fields[1] \o <<BAR, "t", BAR>> \o line.fields[2]
      [] line.kind = "abstract" -> line.fields[1] \o <<BAR, "a", BAR>> \o line.fields[2]
      [] line.kind = "annotation" -> Join(line.fields, TAB, 1)
      [] line.kind = "blank" -> <<>>

\* the text of the lines, each ended by a newline
RECURSIVE ContentOf(_, _)
ContentOf(lines, i) ==
    IF i > Len(lines) THEN <<>>
    ELSE LineText(lines[i]) \o <<NL>> \o ContentOf(lines, i + 1)

NotParsed == [status |-> "none", docs |-> <<>>, entityTypes |-> <<>>]

\* the annotation lines of a text in canonical form: 5 or 6 fields, among
\* them an offset written with a leading zero and an empty 6th field
CanonicalAnnotationLines ==
    {AnnotationFields(<<<<"1">>, <<"0">>, <<"1">>, <<"x">>, <<"G">>>>),
     AnnotationFields(<<<<"1">>, <<"5">>, <<"1", "2">>, <<"x">>, <<"G">>, <<"M">>>>),
     AnnotationFields(<<<<"1">>, <<"0", "5">>, <<"1", "2">>, <<"x">>, <<"D">>>>),
     AnnotationFields(<<<<"1">>, <<"0">>, <<"1">>, <<"x">>, <<"G">>, <<>>>>)}

\* the lines of a text in canonical form: per document the title line, the
\* abstract line, counts[i] annotation lines of all, one blank line
RECURSIVE CanonicalLinesFrom(_, _, _, _)
CanonicalLinesFrom(shells, counts, all, i) ==
    IF i > Len(shells) THEN <<>>
    ELSE <<TitleLine(shells[i].id, shells[i].title),
           AbstractLine(shells[i].id, shells[i].abstract)>>
         \o [k \in 1..counts[i] |-> all[SumTo(counts, i - 1) + k]]
         \o <<BlankLine>>
         \o CanonicalLinesFrom(shells, counts, all, i + 1)

InitCodec ==
    /\ codecParsed = NotParsed
    /\ codecExported = <<>>
    /\ \/ /\ codecFrom = "docs"
          /\ codecPc = "docs"
          /\ \E n \in 0..MaxCodecSize :
                \E counts \in AnnotationCounts(n, MaxCodecSize) :
                    \E shells \in [1..n -> DocumentShells] :
                        \E all \in [1..SumTo(counts, n) -> AnnotationValues] :
                            codecDocs = DocumentsOf(shells, counts, all)
          /\ codecLines = <<>>
          /\ codecContent = <<>>
       \/ /\ codecFrom = "text"
          /\ codecPc = "text"
          /\ codecDocs = <<>>
          /\ codecLines \in UNION {[1..k -> LinePool] : k \in 0..MaxLines}
          /\ codecContent = ContentOf(codecLines, 1)
       \/ /\ codecFrom = "canonical"
          /\ codecPc = "text"
          /\ codecDocs = <<>>
          /\ \E n \in 0..MaxCodecSize :
                \E counts \in AnnotationCounts(n, MaxCodecSize) :
                    \E shells \in [1..n -> DocumentShells] :
                        \E all \in [1..SumTo(counts, n) -> CanonicalAnnotationLines] :
                            codecLines = CanonicalLinesFrom(shells, counts, all, 1)
          /\ codecContent = ContentOf(codecLines, 1)

\* one call of generateExportContent
Serialize ==
    /\ codecPc = "docs"
    /\ codecContent' = generateExportContent(codecDocs)
    /\ codecPc' = "text"
    /\ UNCHANGED <<codecFrom, codecDocs, codecLines, codecParsed, codecExported>>

\* one call of parsePubtator
Parse ==
    /\ codecPc = "text"
    /\ codecParsed' = parsePubtator(codecContent)
    /\ codecPc' = "parsed"
    /\ UNCHANGED <<codecFrom, codecDocs, codecLines, codecContent, codecExported>>

\* one call of generateExportContent on the documents parsePubtator returned
\* for a text
SerializeParsed ==
    /\ codecPc = "parsed"
    /\ codecFrom # "docs"
    /\ codecParsed.status = "ok"
    /\ codecExported' = generateExportContent(codecParsed.docs)
    /\ codecPc' = "exported"
    /\ UNCHANGED <<codecFrom, codecDocs, codecLines, codecContent, codecParsed>>

----------------------------------------------------------------------------
(* hooks/useAnnotationManager and the handlers of App.jsx *)

Chemical == <<"C", "h", "e", "m", "i", "c", "a", "l">>
Gene == <<"G", "e", "n", "e">>
Disease == <<"D", "i", "s", "e", "a", "s", "e">>
Species == <<"S", "p", "e", "c", "i", "e", "s">>
Mutation == <<"M", "u", "t", "a", "t", "i", "o", "n">>
CellLine == <<"C", "e", "l", "l", "L", "i", "n", "e">>

\* the arguments App.jsx gives to useAnnotationManager
initialDocuments == <<>>
initialEntityTypes == <<Chemical, Gene, Disease, Species, Mutation, CellLine>>

initialFilename == "pubtator_annotations.txt"

\* currentAnnotation = null
NoAnnotation == [none |-> TRUE]

getCombinedText(doc) ==
    doc.title \o (IF doc.abstract # <<>> THEN <<" ">> \o doc.abstract ELSE <<>>)

\* documents[currentDocIndex], undefined when the index is out of range
HasCurrentDoc(docs, index) == index + 1 \in 1..Len(docs)

\* the current document or the empty placeholder
currentDoc(docs, index) ==
    IF HasCurrentDoc(docs, index) THEN docs[index + 1]
    ELSE [id |-> <<>>, title |-> <<>>, abstract |-> <<>>, annotations |-> <<>>]

\* { ...annotation, id }
WithId(annotation, id) ==
    [id |-> id, start |-> annotation.start, end |-> annotation.end,
     text |-> annotation.text, type |-> annotation.type,
     normalizedId |-> annotation.normalizedId]

\* annotations.sort((a, b) => a.start - b.start)
SortByStart(annos) == StableSortByKey(annos, [i \in 1..Len(annos) |-> annos[i].start])

\* addAnnotation without the sort
addAnnotation_NoSort(docs, index, annotation) ==
    IF ~HasCurrentDoc(docs, index) THEN [status |-> "throws", docs |-> docs]
    ELSE [status |-> "ok",
          docs |-> [docs EXCEPT ![index + 1].annotations =
                       Append(@, WithId(annotation, currentDoc(docs, index).id))]]

\* addAnnotation refusing an annotation whose start, end and text are
\* already in the list
addAnnotation_RejectsDuplicate(docs, index, annotation) ==
    IF ~HasCurrentDoc(docs, index) THEN [status |-> "throws", docs |-> docs]
    ELSE IF \E k \in 1..Len(currentDoc(docs, index).annotations) :
               LET a == currentDoc(docs, index).annotations[k]
               IN  a.start = annotation.start /\ a.end = annotation.end
                   /\ a.text = annotation.text
         THEN [status |-> "ok", docs |-> docs]
         ELSE addAnnotation_NoSort(docs, index, annotation)

\* addAnnotation without the test idx === currentDocIndex of its map: the
\* annotation goes to every document
addAnnotation_EveryDocument(docs, index, annotation) ==
    IF ~HasCurrentDoc(docs, index) THEN [status |-> "throws", docs |-> docs]
    ELSE [status |-> "ok",
          docs |-> [k \in 1..Len(docs) |->
                       [docs[k] EXCEPT !.annotations =
                           SortByStart(Append(@, WithId(annotation,
                                                        currentDoc(docs, index).id)))]]]

\* addAnnotation: the new document list, or the TypeError of reading
\* .annotations of undefined
addAnnotation(docs, index, annotation) ==
    IF ~HasCurrentDoc(docs, index) THEN [status |-> "throws", docs |-> docs]
    ELSE [status |-> "ok",
          docs |-> [docs EXCEPT ![index + 1].annotations =
                       SortByStart(Append(@, WithId(annotation,
                                                    currentDoc(docs, index).id)))]]

\* editAnnotation sorting the list as addAnnotation does
editAnnotation_Resorts(docs, index, i, updatedAnnotation) ==
    IF ~HasCurrentDoc(docs, index) THEN [status |-> "throws", docs |-> docs]
    ELSE [status |-> "ok",
          docs |-> [docs EXCEPT ![index + 1].annotations =
                       SortByStart([@ EXCEPT ![i + 1] =
                           WithId(updatedAnnotation, currentDoc(docs, index).id)])]]

\* editAnnotation, for an index of the list
editAnnotation(docs, index, i, updatedAnnotation) ==
    IF ~HasCurrentDoc(docs, index) THEN [status |-> "throws", docs |-> docs]
    ELSE [status |-> "ok",
          docs |-> [docs EXCEPT ![index + 1].annotations[i + 1] =
                       WithId(updatedAnnotation, currentDoc(docs, index).id)]]

\* Array.prototype.splice(i, 1), for an index of the list
Splice1(s, i) == SubSeq(s, 1, i) \o SubSeq(s, i + 2, Len(s))

\* deleteAnnotation removing the last element whatever the index
deleteAnnotation_RemovesLast(docs, index, i) ==
    IF ~HasCurrentDoc(docs, index) THEN [status |-> "throws", docs |-> docs]
    ELSE [status |-> "ok",
          docs |-> [docs EXCEPT ![index + 1].annotations = SubSeq(@, 1, Len(@) - 1)]]

deleteAnnotation(docs, index, i) ==
    IF ~HasCurrentDoc(docs, index) THEN [status |-> "throws", docs |-> docs]
    ELSE [status |-> "ok",
          docs |-> [docs EXCEPT ![index + 1].annotations = Splice1(@, i)]]

\* Array.prototype.findIndex: the 0-based index of the first element (in
\* array order) of s whose 1-based position is in hits, or -1; the scan goes
\* from position i on
RECURSIVE FindIndexFrom(_, _, _)
FindIndexFrom(s, hits, i) ==
    IF i > Len(s) THEN -1
    ELSE IF i \in hits THEN i - 1
    ELSE FindIndexFrom(s, hits, i + 1)

\* findAnnotationIndex that compares the type as well
findAnnotationIndex_WithType(annos, annotation) ==
    LET Test(anno) == /\ anno.start = annotation.start
                      /\ anno.end = annotation.end
                      /\ anno.text = annotation.text
                      /\ anno.type = annotation.type
    IN  FindIndexFrom(annos, {i \in 1..Len(annos) : Test(annos[i])}, 1)

\* findAnnotationIndex on the annotations of the current document
findAnnotationIndex(annos, annotation) ==
    LET Test(anno) == /\ anno.start = annotation.start
                      /\ anno.end = annotation.end
                      /\ anno.text = annotation.text
    IN  FindIndexFrom(annos, {i \in 1..Len(annos) : Test(annos[i])}, 1)

\* Array.prototype.includes
ArrayIncludes(s, x) == \E i \in 1..Len(s) : s[i] = x

\* addNewEntityType: the new value of knownEntityTypes
addNewEntityType(known, newType) ==
    IF newType # <<>> /\ ~ArrayIncludes(known, newType) THEN Append(known, newType)
    ELSE known

\* the <mark> elements renderHighlightedText draws for a document: the
\* annotation each one hands to its click handlers
ClickableAnnotations(doc) ==
    LET text == getCombinedText(doc)
        finalSegments == processTextSegments(text, doc.annotations, NoPattern)
        Test(segment, anno) == anno.start = segment.start /\ anno.end = segment.end
        Found(segment) == {k \in 1..Len(doc.annotations) :
                              Test(segment, doc.annotations[k])}
    IN  {doc.annotations[CHOOSE k \in Found(finalSegments[i]) :
                            \A j \in Found(finalSegments[i]) : k <= j] :
            i \in {n \in 1..Len(finalSegments) :
                      /\ finalSegments[n].highlighted = "true"
                      /\ Found(finalSegments[n]) # {}}}

\* downloadFile: the download the anchor click starts
NoDownload == [content |-> Null, download |-> "none"]

downloadFile(content, filename) == [content |-> content, download |-> filename]

\* the catch block of saveToFile with the call of downloadFile left out
SaveCatch_NoFallback(content, filename) == NoDownload

\* the catch block of saveToFile
SaveCatch(content, filename) == downloadFile(content, filename)

----------------------------------------------------------------------------
(* Inputs of the editor *)

\* the largest number of annotations the store holds
MaxAnnotations == 2

Foo == <<"f", "o", "o">>
Drug == <<"D", "r", "u", "g">>

\* a.txt: two documents, the annotations of the first not in order of start
FileA ==
    <<TitleLine(<<"1">>, Foo),
      AbstractLine(<<"1">>, <<"x", " ", "f", "o", "o">>),
      AnnotationFields(<<<<"1">>, <<"6">>, <<"9">>, Foo, Gene>>),
      AnnotationFields(<<<<"1">>, <<"0">>, <<"3">>, Foo, Gene>>),
      BlankLine,
      TitleLine(<<"2">>, <<"x">>),
      AbstractLine(<<"2">>, <<>>),
      BlankLine>>

\* b.txt: one document
FileB ==
    <<TitleLine(<<"3">>, Foo),
      AbstractLine(<<"3">>, <<>>),
      AnnotationFields(<<<<"3">>, <<"0">>, <<"3">>, Foo, Drug>>),
      BlankLine>>

FileNames == {"a.txt", "b.txt"}

\* e.target.result of the FileReader of a file
FileContent(name) ==
    IF name = "a.txt" THEN ContentOf(FileA, 1) ELSE ContentOf(FileB, 1)

\* what the annotation dialog submits
FormAnnotations ==
    {[start |-> 0, end |-> 3, text |-> Foo, type |-> Drug, normalizedId |-> Null],
     [start |-> 6, end |-> 9, text |-> Foo, type |-> Gene, normalizedId |-> Null]}

\* what a table row submits for an annotation whose start, end, text and
\* type fields were retyped: { ...editedAnnotation }
RowAnnotation(annotation, typed) ==
    [annotation EXCEPT !.start = typed.start, !.end = typed.end,
                       !.text = typed.text, !.type = typed.type]

\* the ids typed into the search box of DocumentNavigation
SearchIds == {<<"2">>, <<"3">>}

RECURSIVE CountAnnotations(_, _)
CountAnnotations(docs, i) ==
    IF i > Len(docs) THEN 0
    ELSE Len(docs[i].annotations) + CountAnnotations(docs, i + 1)

----------------------------------------------------------------------------
(* The editor: state and handlers *)

\* what the last handler did: its name, the annotation and list given to
\* findAnnotationIndex and the index returned (or the annotation stored by
\* addAnnotation, or the index the handler was given, or the current
\* document index a load found), and whether it raised an alert
Op(name) == [op |-> name, annotation |-> NoAnnotation, list |-> <<>>,
             index |-> -1, notice |-> FALSE]

FindOp(name, annotation, list, index) ==
    [op |-> name, annotation |-> annotation, list |-> list, index |-> index,
     notice |-> FALSE]

\* the editor after the first render
InitEditor ==
    /\ documents = initialDocuments
    /\ currentDocIndex = 0
    /\ knownEntityTypes = initialEntityTypes
    /\ originalFilename = initialFilename
    /\ isEditMode = FALSE
    /\ currentAnnotation = NoAnnotation
    /\ dialogOpen = FALSE
    /\ reads = {}
    /\ lastOp = Op("none")

\* no export under way
InitSave ==
    /\ savePc = "idle"
    /\ saveDocuments = <<>>
    /\ saveContent = <<>>
    /\ saveFilename = initialFilename
    /\ writable = Null
    /\ fileWritten = Null
    /\ downloaded = NoDownload

\* the page takes user input: no modal dialog and no native picker is open
PageActive == ~dialogOpen /\ savePc # "picker"

dialogVars == <<isEditMode, currentAnnotation, dialogOpen>>

\* handleFileUpload: the name is stored at once, the content is read later
handleFileUpload(file) ==
    /\ PageActive
    /\ originalFilename' = file
    /\ reads' = reads \cup {file}
    /\ lastOp' = Op("upload")
    /\ UNCHANGED <<documents, currentDocIndex, knownEntityTypes, dialogVars>>

\* reader.onload with a setAllDocuments that leaves the index alone
ReaderOnload_KeepsIndex(file) ==
    /\ file \in reads
    /\ reads' = reads \ {file}
    /\ LET parsed == parsePubtator(FileContent(file))
       IN  IF parsed.status = "ok"
           THEN /\ documents' = parsed.docs
                /\ UNCHANGED currentDocIndex
                /\ knownEntityTypes' = parsed.entityTypes
                /\ lastOp' = [Op("onload") EXCEPT !.index = currentDocIndex]
           ELSE /\ UNCHANGED <<documents, currentDocIndex, knownEntityTypes>>
                /\ lastOp' = Op("onloadThrows")
    /\ UNCHANGED <<originalFilename, dialogVars>>

\* reader.onload of a pending read
ReaderOnload(file) ==
    /\ file \in reads
    /\ reads' = reads \ {file}
    /\ LET parsed == parsePubtator(FileContent(file))
       IN  IF parsed.status = "ok"
           THEN /\ documents' = parsed.docs
                /\ currentDocIndex' = 0
                /\ knownEntityTypes' = parsed.entityTypes
                /\ lastOp' = [Op("onload") EXCEPT !.index = currentDocIndex]
           ELSE /\ UNCHANGED <<documents, currentDocIndex, knownEntityTypes>>
                /\ lastOp' = Op("onloadThrows")
    /\ UNCHANGED <<originalFilename, dialogVars>>

\* the Previous button of DocumentNavigation
NavigatePrevious ==
    /\ PageActive
    /\ documents # <<>>
    /\ currentDocIndex # 0
    /\ currentDocIndex' = (IF currentDocIndex - 1 > 0 THEN currentDocIndex - 1 ELSE 0)
    /\ lastOp' = Op("previous")
    /\ UNCHANGED <<documents, knownEntityTypes, originalFilename, dialogVars, reads>>

\* the Next button of DocumentNavigation
NavigateNext ==
    /\ PageActive
    /\ documents # <<>>
    /\ currentDocIndex # Len(documents) - 1
    /\ currentDocIndex' = (IF Len(documents) - 1 < currentDocIndex + 1
                           THEN Len(documents) - 1 ELSE currentDocIndex + 1)
    /\ lastOp' = Op("next")
    /\ UNCHANGED <<documents, knownEntityTypes, originalFilename, dialogVars, reads>>

\* navigateToDocumentById with a non-empty id
navigateToDocumentById(searchId) ==
    /\ PageActive
    /\ documents # <<>>
    /\ LET Test(doc) == doc.id = searchId
           docIndex == FindIndexFrom(documents,
                                     {i \in 1..Len(documents) : Test(documents[i])}, 1)
       IN  IF docIndex # -1
           THEN /\ currentDocIndex' = docIndex
                /\ lastOp' = [Op("navigateById") EXCEPT !.index = docIndex]
           ELSE /\ UNCHANGED currentDocIndex
                /\ lastOp' = [Op("navigateById") EXCEPT !.notice = TRUE]
    /\ UNCHANGED <<documents, knownEntityTypes, originalFilename, dialogVars, reads>>

\* openAddAnnotationDialog
openAddAnnotationDialog ==
    /\ PageActive
    /\ documents # <<>>
    /\ isEditMode' = FALSE
    /\ currentAnnotation' = NoAnnotation
    /\ dialogOpen' = TRUE
    /\ lastOp' = Op("openAdd")
    /\ UNCHANGED <<documents, currentDocIndex, knownEntityTypes, originalFilename, reads>>

\* handleTextSelection with a non-empty selection: the dialog opens in the
\* mode it was left in
handleTextSelection ==
    /\ PageActive
    /\ documents # <<>>
    /\ getCombinedText(currentDoc(documents, currentDocIndex)) # <<>>
    /\ dialogOpen' = TRUE
    /\ lastOp' = Op("select")
    /\ UNCHANGED <<documents, currentDocIndex, knownEntityTypes, originalFilename,
                   isEditMode, currentAnnotation, reads>>

\* handleAnnotationClick on a <mark> of the current document
handleAnnotationClick ==
    /\ PageActive
    /\ documents # <<>>
    /\ \E annotation \in ClickableAnnotations(currentDoc(documents, currentDocIndex)) :
          currentAnnotation' = annotation
    /\ isEditMode' = TRUE
    /\ dialogOpen' = TRUE
    /\ lastOp' = Op("click")
    /\ UNCHANGED <<documents, currentDocIndex, knownEntityTypes, originalFilename, reads>>

\* the Cancel and close buttons of the dialog
DialogClose ==
    /\ dialogOpen
    /\ dialogOpen' = FALSE
    /\ lastOp' = Op("close")
    /\ UNCHANGED <<documents, currentDocIndex, knownEntityTypes, originalFilename,
                   isEditMode, currentAnnotation, reads>>

\* handleRightClickDelete on a <mark> of the current document
handleRightClickDelete ==
    /\ PageActive
    /\ documents # <<>>
    /\ \E annotation \in ClickableAnnotations(currentDoc(documents, currentDocIndex)) :
          LET list == currentDoc(documents, currentDocIndex).annotations
              index == findAnnotationIndex(list, annotation)
          IN  /\ documents' = (IF index # -1
                               THEN deleteAnnotation(documents, currentDocIndex, index).docs
                               ELSE documents)
              /\ lastOp' = FindOp("rightClickDelete", annotation, list, index)
    /\ UNCHANGED <<currentDocIndex, knownEntityTypes, originalFilename, dialogVars, reads>>

\* the Delete button of the dialog: handleDelete, handleDeleteAnnotation and
\* the close of the dialog
handleDeleteAnnotation ==
    /\ dialogOpen
    /\ isEditMode
    /\ currentAnnotation # NoAnnotation
    /\ LET list == currentDoc(documents, currentDocIndex).annotations
           index == findAnnotationIndex(list, currentAnnotation)
       IN  /\ documents' = (IF index # -1
                            THEN deleteAnnotation(documents, currentDocIndex, index).docs
                            ELSE documents)
           /\ lastOp' = FindOp("dialogDelete", currentAnnotation, list, index)
    /\ isEditMode' = FALSE
    /\ currentAnnotation' = NoAnnotation
    /\ dialogOpen' = FALSE
    /\ UNCHANGED <<currentDocIndex, knownEntityTypes, originalFilename, reads>>

\* the submit button of the dialog: handleSubmit, handleAnnotationSubmit and
\* the close of the dialog
handleAnnotationSubmit(formData) ==
    /\ dialogOpen
    /\ isEditMode \/ CountAnnotations(documents, 1) < MaxAnnotations
    /\ knownEntityTypes' =
          (IF formData.type # <<>> /\ ~ArrayIncludes(knownEntityTypes, formData.type)
           THEN addNewEntityType(knownEntityTypes, formData.type)
           ELSE knownEntityTypes)
    /\ IF isEditMode
       THEN LET list == currentDoc(documents, currentDocIndex).annotations
                index == findAnnotationIndex(list, currentAnnotation)
            IN  /\ documents' = (IF index # -1
                                 THEN editAnnotation(documents, currentDocIndex, index,
                                                     formData).docs
                                 ELSE documents)
                /\ lastOp' = FindOp("submitEdit", currentAnnotation, list, index)
                /\ isEditMode' = FALSE
                /\ currentAnnotation' = NoAnnotation
                /\ dialogOpen' = FALSE
       ELSE LET added == addAnnotation(documents, currentDocIndex, formData)
            IN  IF added.status = "ok"
                THEN /\ documents' = added.docs
                     /\ lastOp' = [Op("add") EXCEPT !.annotation =
                                      WithId(formData,
                                             currentDoc(documents, currentDocIndex).id)]
                     /\ isEditMode' = FALSE
                     /\ currentAnnotation' = NoAnnotation
                     /\ dialogOpen' = FALSE
                ELSE /\ lastOp' = Op("addThrows")
                     /\ UNCHANGED <<documents, dialogVars>>
    /\ UNCHANGED <<currentDocIndex, originalFilename, reads>>

\* handleSave of the table row of index i: editAnnotation(i, updated)
RowSave(i, typed) ==
    /\ PageActive
    /\ documents # <<>>
    /\ i + 1 \in 1..Len(currentDoc(documents, currentDocIndex).annotations)
    /\ LET annotation == currentDoc(documents, currentDocIndex).annotations[i + 1]
       IN  documents' = editAnnotation(documents, currentDocIndex, i,
                                       RowAnnotation(annotation, typed)).docs
    /\ lastOp' = [Op("rowSave") EXCEPT !.index = i]
    /\ UNCHANGED <<currentDocIndex, knownEntityTypes, originalFilename, dialogVars, reads>>

\* the Delete button of the table row of index i: deleteAnnotation(i)
RowDelete(i) ==
    /\ PageActive
    /\ documents # <<>>
    /\ i + 1 \in 1..Len(currentDoc(documents, currentDocIndex).annotations)
    /\ documents' = deleteAnnotation(documents, currentDocIndex, i).docs
    /\ lastOp' = [Op("rowDelete") EXCEPT !.index = i]
    /\ UNCHANGED <<currentDocIndex, knownEntityTypes, originalFilename, dialogVars, reads>>

(* saveToFile *)

\* the Save button: saveToFile up to its first await, or to its end when the
\* File System Access API is missing
SaveClick ==
    /\ PageActive
    /\ documents # <<>>
    /\ savePc \in {"idle", "done"}
    /\ saveDocuments' = documents
    /\ saveContent' = generateExportContent(documents)
    /\ saveFilename' = originalFilename
    /\ writable' = Null
    /\ fileWritten' = Null
    /\ IF showSaveFilePicker
       THEN /\ savePc' = "picker"
            /\ downloaded' = NoDownload
       ELSE /\ savePc' = "done"
            /\ downloaded' = downloadFile(generateExportContent(documents),
                                          originalFilename)
    /\ UNCHANGED showSaveFilePicker

\* await window.showSaveFilePicker(...) resolves with a file handle
ShowSaveFilePickerResolves ==
    /\ savePc = "picker"
    /\ savePc' = "createWritable"
    /\ UNCHANGED <<saveDocuments, saveContent, saveFilename, writable, fileWritten,
                   downloaded, showSaveFilePicker>>

\* await fileHandle.createWritable() resolves
CreateWritableResolves ==
    /\ savePc = "createWritable"
    /\ savePc' = "write"
    /\ UNCHANGED <<saveDocuments, saveContent, saveFilename, writable, fileWritten,
                   downloaded, showSaveFilePicker>>

\* await writable.write(content) resolves
WriteResolves ==
    /\ savePc = "write"
    /\ writable' = saveContent
    /\ savePc' = "close"
    /\ UNCHANGED <<saveDocuments, saveContent, saveFilename, fileWritten, downloaded,
                   showSaveFilePicker>>

\* await writable.close() resolves: the file holds what was written
CloseResolves ==
    /\ savePc = "close"
    /\ fileWritten' = writable
    /\ savePc' = "done"
    /\ UNCHANGED <<saveDocuments, saveContent, saveFilename, writable, downloaded,
                   showSaveFilePicker>>

\* one of the four awaited promises rejects (the picker is cancelled, a
\* write fails): the catch block
AwaitRejects ==
    /\ savePc \in {"picker", "createWritable", "write", "close"}
    /\ downloaded' = SaveCatch(saveContent, saveFilename)
    /\ savePc' = "done"
    /\ UNCHANGED <<saveDocuments, saveContent, saveFilename, writable, fileWritten,
                   showSaveFilePicker>>

\* the awaited promise of saveToFile settles
SaveSettles ==
    \/ ShowSaveFilePickerResolves
    \/ CreateWritableResolves
    \/ WriteResolves
    \/ CloseResolves
    \/ AwaitRejects

\* the editor at rest
EditorIdle == InitEditor /\ InitSave /\ showSaveFilePicker = FALSE

----------------------------------------------------------------------------
(* Inputs of the segmentation engine *)

Patterns == {NoPattern, InvalidPattern, LiteralPattern(<<"a">>)}

PatternSize(p) == IF p.kind = "empty" THEN 0 ELSE 2

TextsUpTo(n) == UNION {[1..k -> Chars] : k \in 0..n}

\* the annotations of a text: every span 0 <= start < end <= length, the
\* annotation text being the text of the span
AnnotationsOf(text) ==
    {[start |-> s, end |-> e, text |-> substring(text, s, e), type |-> t] :
        s \in 0..Len(text), e \in 0..Len(text), t \in EntityTypes}

WellFormedAnnotationsOf(text) == {a \in AnnotationsOf(text) : a.start < a.end}

AnnotationListsUpTo(text, n) ==
    UNION {[1..k -> WellFormedAnnotationsOf(text)] : k \in 0..n}

\* two long inputs around the length limit of createUniqueTextMap: n digits,
\* a letter, n digits, the first n digits annotated, for n = 50 and n = 51
LongText(n) == [i \in 1..(2 * n + 1) |-> IF i = n + 1 THEN "A" ELSE "5"]

LongInputs ==
    {[text |-> LongText(n),
      annos |-> <<[start |-> 0, end |-> n, text |-> substring(LongText(n), 0, n),
                   type |-> "Gene"]>>] : n \in {MaxEligibleLength, MaxEligibleLength + 1}}

\* an input with a pattern match behind a duplicated annotation and before
\* another annotation: "5A55", [0,1) annotated twice, [2,4) annotated, the
\* pattern a
DuplicateText == <<"5", "A", "5", "5">>

\* the same with an occurrence of the duplicated text in the place of the
\* pattern match: "555A", [0,1) annotated twice, [2,4) annotated
DuplicateTextPotential == <<"5", "5", "5", "A">>

DuplicateInputs ==
    {[text |-> text,
      annos |-> <<[start |-> 0, end |-> 1, text |-> substring(text, 0, 1),
                   type |-> "Gene"],
                  [start |-> 0, end |-> 1, text |-> substring(text, 0, 1),
                   type |-> "Gene"],
                  [start |-> 2, end |-> 4, text |-> substring(text, 2, 4),
                   type |-> t]>>] :
        text \in {DuplicateText, DuplicateTextPotential}, t \in EntityTypes}

\* no loop-by-loop run of processTextSegments
ScanIdle ==
    /\ scanPc = "idle"
    /\ scanEntry = 0
    /\ scanLastIndex = 0
    /\ scanMatch = NoMatch
    /\ scanPotential = <<>>
    /\ scanRegex = <<>>

\* the codec at rest
CodecIdle ==
    /\ codecFrom = "none"
    /\ codecPc = "idle"
    /\ codecDocs = <<>>
    /\ codecLines = <<>>
    /\ codecContent = <<>>
    /\ codecParsed = NotParsed
    /\ codecExported = <<>>

InitSegment ==
    /\ CodecIdle
    /\ EditorIdle
    /\ regexPattern \in Patterns
    /\ \/ /\ combinedText \in TextsUpTo(MaxInputSize - PatternSize(regexPattern))
          /\ annotations \in AnnotationListsUpTo(combinedText,
                (MaxInputSize - PatternSize(regexPattern) - Len(combinedText)) \div 2)
       \/ /\ regexPattern = NoPattern
          /\ \E inp \in LongInputs : combinedText = inp.text /\ annotations = inp.annos
       \/ /\ regexPattern \in {NoPattern, LiteralPattern(<<"a">>)}
          /\ \E inp \in DuplicateInputs :
                combinedText = inp.text /\ annotations = inp.annos
    /\ segDone = FALSE
    /\ potentialPositions = <<>>
    /\ segments = <<>>
    /\ ScanIdle

\* one call of processTextSegments
Segment ==
    /\ ~segDone
    /\ segDone' = TRUE
    /\ potentialPositions' =
          createPotentialMatches(combinedText, createUniqueTextMap(annotations),
                                 createAnnotationPositions(annotations))
    /\ segments' = processTextSegments(combinedText, annotations, regexPattern)
    /\ UNCHANGED <<combinedText, annotations, regexPattern, scanVars>>
    /\ UNCHANGED <<codecVars, appVars, saveVars>>

NextSegment == Segment

SpecSegment == InitSegment /\ [][NextSegment]_vars

\* the segmentation engine at rest
SegmentIdle ==
    /\ combinedText = <<>>
    /\ annotations = <<>>
    /\ regexPattern = NoPattern
    /\ segDone = FALSE
    /\ potentialPositions = <<>>
    /\ segments = <<>>
    /\ ScanIdle

\* -- processTextSegments, one loop iteration at a time --

\* the size of an input of the loop-by-loop run: the text length and two
\* offsets per annotation
MaxScanSize == 4

ScanPatterns == Patterns \cup {StarPattern("a")}

InitScan ==
    /\ CodecIdle
    /\ EditorIdle
    /\ regexPattern \in ScanPatterns
    /\ combinedText \in TextsUpTo(MaxScanSize)
    /\ annotations \in AnnotationListsUpTo(combinedText,
                                           (MaxScanSize - Len(combinedText)) \div 2)
    /\ segDone = FALSE
    /\ potentialPositions = <<>>
    /\ segments = <<>>
    /\ scanPc = "start"
    /\ scanEntry = 0
    /\ scanLastIndex = 0
    /\ scanMatch = NoMatch
    /\ scanPotential = <<>>
    /\ scanRegex = <<>>

\* processTextSegments is entered: no text, no segments
ScanEnter ==
    /\ scanPc = "start"
    /\ IF combinedText = <<>>
       THEN scanPc' = "done" /\ scanEntry' = 0
       ELSE scanPc' = "potential" /\ scanEntry' = 1
    /\ UNCHANGED <<scanLastIndex, scanMatch, scanPotential, scanRegex>>

\* one exec of the while loop of createPotentialMatches, for the entry in
\* turn; null ends the loop of the entry, the end of the entries is the call
\* of createRegexMatches
PotentialStep ==
    /\ scanPc = "potential"
    /\ LET entries == sortedEntries(createUniqueTextMap(annotations))
       IN  IF scanEntry > Len(entries)
           THEN /\ scanPc' = "regex"
                /\ scanLastIndex' = 0
                /\ UNCHANGED <<scanEntry, scanMatch, scanPotential, scanRegex>>
           ELSE LET match == PatternExec(combinedText, escapeRegExp(entries[scanEntry][1]),
                                         scanLastIndex)
                    overlapsExisting ==
                        OverlapsAny(match.index, match.end,
                                    createAnnotationPositions(annotations) \o scanPotential)
                IN  IF match = NoMatch
                    THEN /\ scanEntry' = scanEntry + 1
                         /\ scanLastIndex' = 0
                         /\ UNCHANGED <<scanPc, scanMatch, scanPotential, scanRegex>>
                    ELSE /\ scanLastIndex' = match.end
                         /\ scanPotential' =
                               (IF overlapsExisting THEN scanPotential
                                ELSE Append(scanPotential,
                                        [start |-> match.index, end |-> match.end,
                                         type |-> "potential",
                                         entityType |-> entries[scanEntry][2]]))
                         /\ UNCHANGED <<scanPc, scanEntry, scanMatch, scanRegex>>

\* createRegexMatches: the early return, the SyntaxError caught, or the
\* condition of its while loop, match = regex.exec(text); null ends the loop
\* and processTextSegments goes on to return
RegexExec ==
    /\ scanPc = "regex"
    /\ IF regexPattern.kind \in {"empty", "invalid"}
       THEN /\ scanPc' = "done"
            /\ UNCHANGED <<scanEntry, scanLastIndex, scanMatch, scanPotential, scanRegex>>
       ELSE LET match == PatternExec(combinedText, regexPattern, scanLastIndex)
            IN  /\ scanMatch' = match
                /\ IF match = NoMatch
                   THEN scanPc' = "done" /\ scanLastIndex' = 0
                   ELSE scanPc' = "regexBody" /\ scanLastIndex' = match.end
                /\ UNCHANGED <<scanEntry, scanPotential, scanRegex>>

\* the body of the while loop of createRegexMatches, for the match the
\* condition found
RegexBody ==
    /\ scanPc = "regexBody"
    /\ LET overlapsOther ==
               OverlapsAny(scanMatch.index, scanMatch.end,
                           createAnnotationPositions(annotations) \o scanPotential)
       IN  \* a scan that advances through the text pushes at most one match
           \* per offset
           /\ overlapsOther \/ Len(scanRegex) <= MaxScanSize
           /\ scanRegex' =
                 (IF overlapsOther THEN scanRegex
                  ELSE Append(scanRegex,
                          [start |-> scanMatch.index, end |-> scanMatch.end,
                           type |-> "regex", entityType |-> Undefined]))
    /\ scanPc' = "regex"
    /\ UNCHANGED <<scanEntry, scanLastIndex, scanMatch, scanPotential>>

\* what the run works on
scanInputs == <<combinedText, annotations, regexPattern, segDone, potentialPositions,
                segments>>

NextScan ==
    \/ ScanEnter /\ UNCHANGED <<scanInputs, codecVars, appVars, saveVars>>
    \/ PotentialStep /\ UNCHANGED <<scanInputs, codecVars, appVars, saveVars>>
    \/ RegexExec /\ UNCHANGED <<scanInputs, codecVars, appVars, saveVars>>
    \/ RegexBody /\ UNCHANGED <<scanInputs, codecVars, appVars, saveVars>>

\* the run is one synchronous call: it goes on while it has a step to take
SpecScan == InitScan /\ [][NextScan]_vars /\ WF_vars(NextScan)

NextCodec ==
    \/ Serialize /\ UNCHANGED <<segVars, appVars, saveVars>>
    \/ Parse /\ UNCHANGED <<segVars, appVars, saveVars>>
    \/ SerializeParsed /\ UNCHANGED <<segVars, appVars, saveVars>>

InitCodecSpec == SegmentIdle /\ EditorIdle /\ InitCodec

SpecCodec == InitCodecSpec /\ [][NextCodec]_vars

\* the editor: file loads, navigation, the annotation dialog and the table
Init ==
    /\ SegmentIdle
    /\ CodecIdle
    /\ InitEditor
    /\ InitSave
    /\ showSaveFilePicker = FALSE

Next ==
    \/ \E file \in FileNames :
          handleFileUpload(file) /\ UNCHANGED <<segVars, codecVars, saveVars>>
    \/ \E file \in FileNames :
          ReaderOnload(file) /\ UNCHANGED <<segVars, codecVars, saveVars>>
    \/ NavigatePrevious /\ UNCHANGED <<segVars, codecVars, saveVars>>
    \/ NavigateNext /\ UNCHANGED <<segVars, codecVars, saveVars>>
    \/ \E searchId \in SearchIds :
          navigateToDocumentById(searchId) /\ UNCHANGED <<segVars, codecVars, saveVars>>
    \/ openAddAnnotationDialog /\ UNCHANGED <<segVars, codecVars, saveVars>>
    \/ handleTextSelection /\ UNCHANGED <<segVars, codecVars, saveVars>>
    \/ handleAnnotationClick /\ UNCHANGED <<segVars, codecVars, saveVars>>
    \/ DialogClose /\ UNCHANGED <<segVars, codecVars, saveVars>>
    \/ handleRightClickDelete /\ UNCHANGED <<segVars, codecVars, saveVars>>
    \/ handleDeleteAnnotation /\ UNCHANGED <<segVars, codecVars, saveVars>>
    \/ \E formData \in FormAnnotations :
          handleAnnotationSubmit(formData) /\ UNCHANGED <<segVars, codecVars, saveVars>>
    \/ \E i \in 0..(MaxAnnotations - 1) :
          \E typed \in FormAnnotations :
              RowSave(i, typed) /\ UNCHANGED <<segVars, codecVars, saveVars>>
    \/ \E i \in 0..(MaxAnnotations - 1) :
          RowDelete(i) /\ UNCHANGED <<segVars, codecVars, saveVars>>

Spec == Init /\ [][Next]_vars

\* the export: saveToFile with the file loads that may run meanwhile
InitSaveSpec ==
    /\ SegmentIdle
    /\ CodecIdle
    /\ InitEditor
    /\ InitSave
    /\ showSaveFilePicker \in BOOLEAN

SaveStep == SaveSettles /\ UNCHANGED <<segVars, codecVars, appVars>>

NextSave ==
    \/ \E file \in FileNames :
          handleFileUpload(file) /\ UNCHANGED <<segVars, codecVars, saveVars>>
    \/ \E file \in FileNames :
          ReaderOnload(file) /\ UNCHANGED <<segVars, codecVars, saveVars>>
    \/ SaveClick /\ UNCHANGED <<segVars, codecVars, appVars>>
    \/ ShowSaveFilePickerResolves /\ UNCHANGED <<segVars, codecVars, appVars>>
    \/ CreateWritableResolves /\ UNCHANGED <<segVars, codecVars, appVars>>
    \/ WriteResolves /\ UNCHANGED <<segVars, codecVars, appVars>>
    \/ CloseResolves /\ UNCHANGED <<segVars, codecVars, appVars>>
    \/ AwaitRejects /\ UNCHANGED <<segVars, codecVars, appVars>>

\* every promise saveToFile awaits settles
SpecSave == InitSaveSpec /\ [][NextSave]_vars /\ WF_vars(SaveStep)

----------------------------------------------------------------------------
(* Properties of the codec *)

Delimiters == {BAR, TAB, NL}

DelimiterFree(str) == \A i \in 1..Len(str) : str[i] \notin Delimiters

\* no field of the documents holds a delimiter of the format
WellFormedDocuments(docs) ==
    \A i \in 1..Len(docs) :
        /\ DelimiterFree(docs[i].id)
        /\ DelimiterFree(docs[i].title)
        /\ DelimiterFree(docs[i].abstract)
        /\ \A k \in 1..Len(docs[i].annotations) :
              LET a == docs[i].annotations[k]
              IN  /\ DelimiterFree(a.id)
                  /\ DelimiterFree(a.text)
                  /\ DelimiterFree(a.type)
                  /\ a.normalizedId # Null => DelimiterFree(a.normalizedId)

RoundTripDone ==
    codecFrom = "docs" /\ codecPc = "parsed" /\ WellFormedDocuments(codecDocs)

\* the parsed documents are the original ones in id, title, abstract and in
\* each annotation's start, end, text and type; SameId(original, parsed)
\* compares the normalizedId
SameDocuments(SameId(_, _)) ==
    /\ codecParsed.status = "ok"
    /\ Len(codecParsed.docs) = Len(codecDocs)
    /\ \A i \in 1..Len(codecDocs) :
          LET d == codecDocs[i]
              p == codecParsed.docs[i]
          IN  /\ p.id = d.id
              /\ p.title = d.title
              /\ p.abstract = d.abstract
              /\ Len(p.annotations) = Len(d.annotations)
              /\ \A k \in 1..Len(d.annotations) :
                    /\ p.annotations[k].start = d.annotations[k].start
                    /\ p.annotations[k].end = d.annotations[k].end
                    /\ p.annotations[k].text = d.annotations[k].text
                    /\ p.annotations[k].type = d.annotations[k].type
                    /\ SameId(d.annotations[k].normalizedId,
                              p.annotations[k].normalizedId)

ExactlyEqual(x, y) == x = y

\* an absent normalizedId is null after parsing, whether it was null or
\* the empty string
EqualOrAbsent(x, y) == IF x = <<>> THEN y = Null ELSE x = y

\* C3 as stated: parsing the serialization of a well-formed document set,
\* annotations with a null or an empty normalizedId and empty abstracts
\* included, yields as many documents, equal in id, title and abstract and
\* in each annotation's start, end, text, type and normalizedId.
C3_RoundTripExact == RoundTripDone => SameDocuments(ExactlyEqual)

\* C3 (amended): parsing the serialization of a document set none of whose
\* fields holds a bar, a tab or a newline yields as many documents, equal
\* in id, title and abstract and in each annotation's start, end, text and
\* type; the normalizedId is the same, except that an empty normalizedId
\* comes back as null.
C3_RoundTrip == RoundTripDone => SameDocuments(EqualOrAbsent)

\* two documents went through, one of them with an empty abstract and one
\* with an annotation whose empty normalizedId came back as null
C3_Witness ==
    /\ RoundTripDone
    /\ Len(codecDocs) = 2
    /\ \E i \in 1..Len(codecDocs) : codecDocs[i].abstract = <<>>
    /\ \E i \in 1..Len(codecDocs) : \E k \in 1..Len(codecDocs[i].annotations) :
          /\ codecDocs[i].annotations[k].normalizedId = <<>>
          /\ codecParsed.docs[i].annotations[k].normalizedId = Null
    /\ SameDocuments(EqualOrAbsent)

\* the types of the annotation lines parsePubtator accepts: the 5th field of
\* the lines of at least 5 fields of a text, the types of the annotations of
\* a serialized document set
AcceptedTypes ==
    IF codecFrom # "docs"
    THEN {codecLines[i].fields[5] :
            i \in {n \in 1..Len(codecLines) : /\ codecLines[n].kind = "annotation"
                                              /\ Len(codecLines[n].fields) >= 5}}
    ELSE UNION {{codecDocs[i].annotations[k].type : k \in 1..Len(codecDocs[i].annotations)} :
                    i \in 1..Len(codecDocs)}

\* C10: the entity types parsePubtator returns hold the type of every
\* accepted annotation line exactly once and nothing else; the fields of a
\* skipped line (fewer than 5 fields) are not among them.
C10_EntityTypesOnce ==
    (/\ codecPc = "parsed"
     /\ codecParsed.status = "ok"
     /\ codecFrom = "docs" => WellFormedDocuments(codecDocs)) =>
        /\ \A i, j \in 1..Len(codecParsed.entityTypes) :
              i # j => codecParsed.entityTypes[i] # codecParsed.entityTypes[j]
        /\ {codecParsed.entityTypes[i] : i \in 1..Len(codecParsed.entityTypes)}
              = AcceptedTypes

\* a text with accepted lines of types G, D and G and a skipped line was
\* parsed to the two types G and D
C10_Witness ==
    /\ codecFrom = "text"
    /\ codecPc = "parsed"
    /\ codecParsed.status = "ok"
    /\ \E i, j, k, m \in 1..Len(codecLines) :
          /\ i < j /\ j < k
          /\ codecLines[i].kind = "annotation" /\ Len(codecLines[i].fields) >= 5
          /\ codecLines[j].kind = "annotation" /\ Len(codecLines[j].fields) >= 5
          /\ codecLines[k].kind = "annotation" /\ Len(codecLines[k].fields) >= 5
          /\ codecLines[i].fields[5] = <<"G">>
          /\ codecLines[j].fields[5] = <<"D">>
          /\ codecLines[k].fields[5] = <<"G">>
          /\ codecLines[m].kind = "annotation" /\ Len(codecLines[m].fields) < 5
    /\ codecParsed.entityTypes = <<<<"G">>, <<"D">>>>

----------------------------------------------------------------------------
(* Properties of the segmentation engine *)

HighlightedSegments == {i \in 1..Len(segments) : segments[i].highlighted # "false"}

SpansIntersect(s1, e1, s2, e2) == s1 < e2 /\ s2 < e1

RECURSIVE ConcatText(_, _)
ConcatText(segs, i) ==
    IF i > Len(segs) THEN <<>> ELSE segs[i].text \o ConcatText(segs, i + 1)

\* C1: the highlighted spans of the segments processTextSegments returns
\* (annotation, potential and pattern kinds) are pairwise non-overlapping as
\* half-open intervals, for any text, annotation list and pattern, also when
\* the annotations overlap or are duplicated.
C1_HighlightedSpansDisjoint ==
    segDone =>
        \A i, j \in HighlightedSegments :
            i # j => ~SpansIntersect(segments[i].start, segments[i].end,
                                     segments[j].start, segments[j].end)

\* C2: the texts of the segments processTextSegments returns, concatenated
\* in output order, are the combined text: no character is duplicated or
\* dropped.
C2_ConcatenationIsText ==
    segDone => ConcatText(segments, 1) = combinedText

\* the text of an annotation as the potential-match pass looks for it
KeyOf(k) == toLowerCase(annotations[k].text)

\* eligibility as the contract words it: 1 to 50 characters, a digit when
\* the text is a single character
Eligible(k) ==
    LET t == annotations[k].text
    IN  /\ Len(t) >= 1
        /\ Len(t) <= 50
        /\ Len(t) = 1 => t[1] \in Digits

EligibleAnnotations == {k \in 1..Len(annotations) : Eligible(k)}

\* t occurs in the combined text at offset i, letter case ignored
OccursAt(t, i) ==
    /\ i >= 0
    /\ i + Len(t) <= Len(combinedText)
    /\ toLowerCase(SubSeq(combinedText, i + 1, i + Len(t))) = toLowerCase(t)

Occurrences(t) == {i \in 0..Len(combinedText) : OccursAt(t, i)}

IsProperSubstring(s, t) ==
    /\ Len(s) < Len(t)
    /\ \E i \in 0..(Len(t) - Len(s)) : SubSeq(t, i + 1, i + Len(s)) = s

IntersectsExplicit(s, e) ==
    \E k \in 1..Len(annotations) :
        SpansIntersect(s, e, annotations[k].start, annotations[k].end)

PotentialIntersecting(s, e) ==
    {n \in 1..Len(potentialPositions) :
        SpansIntersect(s, e, potentialPositions[n].start, potentialPositions[n].end)}

\* the occurrence of length len at offset i is one potential span: the only
\* potential span that meets it is the span [i, i + len) itself, carrying a
\* type among types
IsOnePotentialSpan(i, len, types) ==
    /\ Cardinality(PotentialIntersecting(i, i + len)) = 1
    /\ \A n \in PotentialIntersecting(i, i + len) :
          /\ potentialPositions[n].start = i
          /\ potentialPositions[n].end = i + len
          /\ potentialPositions[n].type = "potential"
          /\ potentialPositions[n].entityType \in types

TypesOfKey(key) == {annotations[k].type : k \in {n \in EligibleAnnotations : KeyOf(n) = key}}

RECURSIVE ScanOccurrences(_, _)
ScanOccurrences(t, from) ==
    LET rest == {i \in Occurrences(t) : i >= from}
        first == CHOOSE i \in rest : \A j \in rest : i <= j
    IN  IF rest = {} THEN {} ELSE {first} \cup ScanOccurrences(t, first + Len(t))

\* the type the text map holds for a key: that of the last annotation with it
LastTypeOfKey(key) ==
    LET ks == {n \in EligibleAnnotations : KeyOf(n) = key}
    IN  annotations[CHOOSE k \in ks : \A n \in ks : n <= k].type

IsLongestKey(b) ==
    \A k \in EligibleAnnotations : KeyOf(k) # KeyOf(b) => Len(KeyOf(k)) < Len(KeyOf(b))

----------------------------------------------------------------------------
(* Properties of the annotation store and the editor *)

IsSortedByStart(annos) ==
    \A i, j \in 1..Len(annos) : i < j => annos[i].start <= annos[j].start

\* C4: after each Add (a submit of the dialog in add mode), whatever loads,
\* deletes, edits and navigation came before, the annotation list of the
\* current document is sorted ascending by start.
C4_SortedAfterAdd ==
    lastOp.op = "add" =>
        IsSortedByStart(currentDoc(documents, currentDocIndex).annotations)

\* an Add has put the new annotation in front of an annotation that starts
\* later
C4_Witness ==
    LET annos == currentDoc(documents, currentDocIndex).annotations
    IN  /\ lastOp.op = "add"
        /\ Len(annos) >= 2
        /\ annos[1] = lastOp.annotation
        /\ annos[1].start < annos[2].start

\* C5: the entity type registry never shrinks: every type that is in
\* knownEntityTypes before a step is in it after the step (so the seed
\* types, there at the start, are always there).
C5_RegistryNeverShrinks ==
    [][\A i \in 1..Len(knownEntityTypes) :
          ArrayIncludes(knownEntityTypes', knownEntityTypes[i])]_vars

\* the handlers that call findAnnotationIndex
FindOps == {"rightClickDelete", "dialogDelete", "submitEdit"}

SameTriple(a, b) == a.start = b.start /\ a.end = b.end /\ a.text = b.text

\* the 0-based indexes of the elements of the list with the (start, end,
\* text) of the annotation
MatchingIndexes(list, annotation) ==
    {i \in 0..(Len(list) - 1) : SameTriple(list[i + 1], annotation)}

\* C8: findAnnotationIndex returns the smallest index of the current
\* document's annotation list whose element has the (start, end, text) of
\* the argument, type and normalizedId ignored, and -1 when there is none.
C8_FindIndexFirstMatch ==
    lastOp.op \in FindOps =>
        LET matching == MatchingIndexes(lastOp.list, lastOp.annotation)
        IN  IF matching = {} THEN lastOp.index = -1
            ELSE /\ lastOp.index \in matching
                 /\ \A j \in matching : lastOp.index <= j

\* findAnnotationIndex was called on a list with two annotations of the
\* same (start, end, text) and different type, and returned the first
C8_Witness ==
    /\ lastOp.op \in FindOps
    /\ \E i, j \in MatchingIndexes(lastOp.list, lastOp.annotation) :
          /\ i < j
          /\ lastOp.list[i + 1].type # lastOp.list[j + 1].type
          /\ lastOp.index = i

SaveBusy == savePc \notin {"idle", "done"}

\* the content Serialize produced at the start of the request was written
\* through the picker or passed to downloadFile
SaveDelivered ==
    LET content == generateExportContent(saveDocuments)
    IN  \/ fileWritten = content
        \/ downloaded # NoDownload /\ downloaded.content = content

\* C9: every execution of saveToFile ends, and ends with the content
\* serialized at its start written through the picker or handed to
\* downloadFile (the latter whenever the picker is missing, is cancelled or
\* a step of writing fails).
C9_SaveDelivers ==
    /\ [](savePc = "done" => SaveDelivered)
    /\ [](savePc = "done" /\ fileWritten = Null =>
            downloaded = downloadFile(generateExportContent(saveDocuments),
                                      saveFilename))
    /\ (SaveBusy ~> savePc = "done")

\* the write went through, close() failed and the content went to the
\* download, while a file load had replaced the documents meanwhile
C9_Witness ==
    /\ showSaveFilePicker
    /\ savePc = "done"
    /\ writable = saveContent
    /\ fileWritten = Null
    /\ downloaded = downloadFile(generateExportContent(saveDocuments), saveFilename)
    /\ documents # saveDocuments

\* ---------------------------------------------------------------------
\* Parse then Serialize of a text in canonical form
\* ---------------------------------------------------------------------

\* a text in canonical form was parsed and the documents were serialized
ReserializeDone == codecFrom = "canonical" /\ codecPc = "exported"

AnnotationLinesOf(lines) == {i \in 1..Len(lines) : lines[i].kind = "annotation"}

\* the field is the decimal numeral that the number it denotes is written as
IsWrittenNumber(field) == numberToString(parseInt(field)) = field

\* every annotation line writes start and end as the numbers are written
\* back, and its 6th field, when there is one, is not empty
WrittenAsSerialized(lines) ==
    \A i \in AnnotationLinesOf(lines) :
        /\ IsWrittenNumber(lines[i].fields[2])
        /\ IsWrittenNumber(lines[i].fields[3])
        /\ Len(lines[i].fields) = 6 => lines[i].fields[6] # <<>>

\* C11 as stated: for any text in canonical form (per document a title
\* line, an abstract line, annotation lines of 5 or 6 tab-separated fields,
\* one blank line), serializing the parsed documents reproduces the text
\* byte for byte.
C11_RoundTripAnyCanonicalText == ReserializeDone => codecExported = codecContent

\* C11: for any text in canonical form whose annotation lines write start
\* and end as decimal numerals without leading zeros and whose 6th field,
\* when present, is not empty, serializing the parsed documents reproduces
\* the text byte for byte.
C11_RoundTripCanonicalText ==
    ReserializeDone /\ WrittenAsSerialized(codecLines) => codecExported = codecContent

\* a text with a 6-field and a 5-field annotation line came back byte for
\* byte
C11_Witness ==
    /\ ReserializeDone
    /\ WrittenAsSerialized(codecLines)
    /\ Len(codecParsed.docs) >= 1
    /\ \E i, j \in AnnotationLinesOf(codecLines) :
          Len(codecLines[i].fields) = 6 /\ Len(codecLines[j].fields) = 5
    /\ codecExported = codecContent
    /\ codecContent # <<>>

\* ---------------------------------------------------------------------
\* Add, Edit and Delete on the current document's annotation list
\* ---------------------------------------------------------------------

currentAnnotations == currentDoc(documents, currentDocIndex).annotations

\* the list without its element at position p (1-based)
Without(list, p) == [k \in 1..(Len(list) - 1) |-> IF k < p THEN list[k] ELSE list[k + 1]]

\* the elements of the list that start at s, in list order
StartingAt(list, s) == SelectSeq(list, LAMBDA a : a.start = s)

StartsOf(list) == {list[k].start : k \in 1..Len(list)}

\* new is old plus the annotation: one element more, every element of old
\* kept, the elements of one start in their old order, the annotation after
\* the elements of its start
IsAddedTo(old, annotation, new) ==
    /\ Len(new) = Len(old) + 1
    /\ \E p \in 1..Len(new) :
          /\ new[p] = annotation
          /\ \A q \in 1..Len(new) : new[q].start = annotation.start => q <= p
          /\ \A s \in StartsOf(old) \cup StartsOf(new) :
                StartingAt(Without(new, p), s) = StartingAt(old, s)

\* the submit of the dialog in add mode with a current document
AddSubmit(formData) ==
    /\ handleAnnotationSubmit(formData)
    /\ ~isEditMode
    /\ HasCurrentDoc(documents, currentDocIndex)

\* C12: Add never rejects: every submit of the dialog in add mode adds the
\* annotation with the id of the current document to the current document's
\* list, which gets one element longer (duplicates and overlapping
\* annotations included), keeps every annotation it had, keeps the
\* annotations of equal start in their order and has the new one after the
\* ones of its start.
C12_AddNeverRejects ==
    [][\A formData \in FormAnnotations :
          AddSubmit(formData) =>
              /\ lastOp'.op = "add"
              /\ currentDocIndex' = currentDocIndex
              /\ IsAddedTo(currentAnnotations,
                           WithId(formData, currentDoc(documents, currentDocIndex).id),
                           currentAnnotations')]_vars

\* an Add just put an annotation behind a different one of the same start
\* that it overlaps
C12_Witness ==
    /\ lastOp.op = "add"
    /\ Len(currentAnnotations) = 2
    /\ currentAnnotations[2] = lastOp.annotation
    /\ currentAnnotations[1].start = currentAnnotations[2].start
    /\ currentAnnotations[1] # currentAnnotations[2]

\* new is old with the element of index i (0-based) replaced by the
\* annotation, nothing else moved or changed
IsReplacedIn(old, i, annotation, new) ==
    /\ Len(new) = Len(old)
    /\ new[i + 1] = annotation
    /\ \A k \in 1..Len(old) : k # i + 1 => new[k] = old[k]

\* the submit of the dialog in edit mode when findAnnotationIndex found the
\* annotation
EditSubmit(formData) ==
    /\ handleAnnotationSubmit(formData)
    /\ isEditMode
    /\ findAnnotationIndex(currentAnnotations, currentAnnotation) # -1

\* C13: Edit with a valid index replaces only the element at that index by
\* the given annotation with the id of the current document; the length of
\* the list, the order and every other element are unchanged, also when the
\* new start breaks the ascending order. Checked on every call of
\* editAnnotation: the Save of a table row and the submit of the dialog in
\* edit mode.
C13_EditReplacesInPlace ==
    [][/\ \A i \in 0..(MaxAnnotations - 1) : \A typed \in FormAnnotations :
             RowSave(i, typed) =>
                 /\ currentDocIndex' = currentDocIndex
                 /\ IsReplacedIn(currentAnnotations, i,
                                 WithId(RowAnnotation(currentAnnotations[i + 1], typed),
                                        currentDoc(documents, currentDocIndex).id),
                                 currentAnnotations')
       /\ \A formData \in FormAnnotations :
             EditSubmit(formData) =>
                 /\ currentDocIndex' = currentDocIndex
                 /\ IsReplacedIn(currentAnnotations,
                                 findAnnotationIndex(currentAnnotations, currentAnnotation),
                                 WithId(formData, currentDoc(documents, currentDocIndex).id),
                                 currentAnnotations')]_vars

\* an Edit of index 1 just left the list of b.txt, in order until then, with
\* its second start before its first
C13_Witness ==
    /\ lastOp.op \in {"rowSave", "submitEdit"}
    /\ lastOp.index = 1
    /\ currentDoc(documents, currentDocIndex).id = <<"3">>
    /\ Len(currentAnnotations) = 2
    /\ currentAnnotations[2].start < currentAnnotations[1].start

\* new is old without the element of index i (0-based): the elements
\* before it keep their index, the elements after it move down by one
IsRemovedFrom(old, i, new) ==
    /\ Len(new) = Len(old) - 1
    /\ \A k \in 1..Len(old) :
          /\ k < i + 1 => new[k] = old[k]
          /\ k > i + 1 => new[k - 1] = old[k]

\* C14: Delete with a valid index removes exactly the element at that
\* index: the elements before it keep their index, each element after it
\* moves down by one, the order of the remaining elements is unchanged.
\* Checked on every call of deleteAnnotation: the Delete of a table row, the
\* right click on a highlight and the Delete of the dialog, the last two
\* with the index findAnnotationIndex returned.
C14_DeleteRemovesOne ==
    [][/\ \A i \in 0..(MaxAnnotations - 1) :
             RowDelete(i) =>
                 /\ currentDocIndex' = currentDocIndex
                 /\ IsRemovedFrom(currentAnnotations, i, currentAnnotations')
       /\ (handleRightClickDelete \/ handleDeleteAnnotation) /\ lastOp'.index # -1 =>
             /\ currentDocIndex' = currentDocIndex
             /\ lastOp'.list = currentAnnotations
             /\ IsRemovedFrom(currentAnnotations, lastOp'.index, currentAnnotations')]_vars

\* a Delete of index 0 of a list of two just moved the second element down
C14_Witness ==
    /\ lastOp.op \in {"rightClickDelete", "dialogDelete"}
    /\ lastOp.index = 0
    /\ Len(lastOp.list) = 2
    /\ lastOp.list[1] # lastOp.list[2]
    /\ currentAnnotations = <<lastOp.list[2]>>

\* ---------------------------------------------------------------------
\* Search patterns
\* ---------------------------------------------------------------------

SegmentsOfKind(segs, kind) == {i \in 1..Len(segs) : segs[i].highlighted = kind}

TextParsed == codecFrom = "text" /\ codecPc \in {"parsed", "exported"}

\* line i is an annotation line of fewer than 5 tab-separated fields and
\* comes after a title line
IsSkippedLine(lines, i) ==
    /\ lines[i].kind = "annotation"
    /\ Len(lines[i].fields) < 5
    /\ \E j \in 1..(i - 1) : lines[j].kind = "title"

\* C16: an annotation line of fewer than 5 tab-separated fields after a
\* title line is skipped and does not abort parsePubtator: the result, in
\* documents and entity types, is the result for the text without that
\* line.
C16_ShortLineSkipped ==
    TextParsed =>
        \A i \in 1..Len(codecLines) :
            IsSkippedLine(codecLines, i) =>
                codecParsed = parsePubtator(ContentOf(Without(codecLines, i), 1))

\* a text with a short line between a title line and an accepted annotation
\* line was parsed to one document with that one annotation
C16_Witness ==
    /\ TextParsed
    /\ \E i \in 2..(Len(codecLines) - 1) :
          /\ IsSkippedLine(codecLines, i)
          /\ codecLines[i + 1].kind = "annotation"
          /\ Len(codecLines[i + 1].fields) >= 5
    /\ codecParsed.status = "ok"
    /\ Len(codecParsed.docs) = 1
    /\ Len(codecParsed.docs[1].annotations) = 1
    /\ Len(codecParsed.entityTypes) = 1

\* ---------------------------------------------------------------------
\* Lookup misses
\* ---------------------------------------------------------------------

\* the step is a handler whose lookup (findAnnotationIndex before an edit or
\* a delete, findIndex of navigateToDocumentById) found nothing
LookupMisses ==
    /\ lastOp'.op \in FindOps \cup {"navigateById"}
    /\ lastOp'.index = -1

\* a lookup miss leaves the documents, with their annotation lists, and the
\* current document index as they are
MissChangesNothing ==
    [][LookupMisses => documents' = documents /\ currentDocIndex' = currentDocIndex]_vars

\* C17: a lookup miss is not fatal and is reported: when findAnnotationIndex
\* finds no annotation before an edit or a delete, or navigateToDocumentById
\* finds no document of the id, the documents, every annotation list and the
\* current document index are unchanged and a notice of the miss is
\* produced.
C17_LookupMissReported ==
    [][LookupMisses =>
          /\ documents' = documents
          /\ currentDocIndex' = currentDocIndex
          /\ lastOp'.notice]_vars

\* ---------------------------------------------------------------------
\* Loads and exports in progress
\* ---------------------------------------------------------------------

\* a file was selected and its reader.onload has not run yet
LoadInProgress == reads # {}

\* while a load is in progress the only step is the onload of a pending
\* read
LoadRunsToCompletion ==
    [][LoadInProgress => \E file \in reads : ReaderOnload(file)]_vars

\* while an export is in progress the only step is the settling of the
\* promise saveToFile awaits
ExportRunsToCompletion == [][SaveBusy => SaveSettles]_vars

\* C18: user actions never interleave: while a file load (from the
\* selection of the file until its content is parsed and installed) or an
\* export (from Save until the content is delivered) is in progress, no
\* other load, edit or export is accepted.
C18_ActionsNeverInterleave ==
    [][/\ LoadInProgress => \E file \in reads : ReaderOnload(file)
       /\ SaveBusy => SaveSettles]_vars

\* ---------------------------------------------------------------------
\* Termination of processTextSegments
\* ---------------------------------------------------------------------

\* the loops ended with what createPotentialMatches and createRegexMatches
\* return
ScanAgrees ==
    scanPc = "done" /\ combinedText # <<>> =>
        /\ scanPotential = createPotentialMatches(combinedText,
                               createUniqueTextMap(annotations),
                               createAnnotationPositions(annotations))
        /\ scanRegex = createRegexMatches(combinedText, regexPattern,
                           createAnnotationPositions(annotations) \o scanPotential)

\* the potential-match scan ends
PotentialScanEnds == <>(scanPc \in {"regex", "done"})

\* the run ends when the pattern cannot match the empty string
NonEmptyPatternScanEnds == regexPattern.kind # "star" => <>(scanPc = "done")

\* the pattern scan has pushed more matches than the text has offsets
ManyMatches == Len(scanRegex) > MaxScanSize

\* C19: processTextSegments terminates for every text, annotation list and
\* pattern, patterns that can match the empty string (such as a*) included:
\* the potential-match scan and the pattern scan both end after finitely
\* many matches. Every run is followed until it returns or has pushed more
\* pattern matches than the text has offsets.
C19_SegmentTerminates == <>(scanPc = "done" \/ ManyMatches)

\* ---------------------------------------------------------------------
\* Priority of pattern matches
\* ---------------------------------------------------------------------

\* the explicit and potential segments, in order
ExplicitAndPotential(segs) ==
    SelectSeq(segs, LAMBDA seg : seg.highlighted \in {"true", "potential"})

\* no pattern segment intersects another highlighted segment or the span of
\* an annotation
PatternSpansApart ==
    \A i \in SegmentsOfKind(segments, "regex") :
        /\ \A j \in HighlightedSegments \ {i} :
              ~SpansIntersect(segments[i].start, segments[i].end,
                              segments[j].start, segments[j].end)
        /\ \A k \in 1..Len(annotations) :
              ~SpansIntersect(segments[i].start, segments[i].end,
                              annotations[k].start, annotations[k].end)

\* the explicit and potential segments are the ones returned without the
\* pattern
PatternKeepsOtherSpans ==
    ExplicitAndPotential(segments) =
        ExplicitAndPotential(processTextSegments(combinedText, annotations, NoPattern))

\* C20: pattern matches have the lowest priority: no pattern span of the
\* segments processTextSegments returns intersects an explicit annotation
\* span, a potential span or another pattern span, and the explicit and
\* potential spans are the ones returned without the pattern.
C20_PatternLowestPriority ==
    segDone => PatternSpansApart /\ PatternKeepsOtherSpans

\* ---------------------------------------------------------------------
\* Potential spans
\* ---------------------------------------------------------------------

\* C21: no potential span of the segments processTextSegments returns
\* intersects an explicit annotation span (of a returned segment or of an
\* annotation) or another potential span, whatever the annotation list.
C21_PotentialSpansApart ==
    segDone =>
        \A i \in SegmentsOfKind(segments, "potential") :
            /\ \A j \in (SegmentsOfKind(segments, "true")
                            \cup SegmentsOfKind(segments, "potential")) \ {i} :
                  ~SpansIntersect(segments[i].start, segments[i].end,
                                  segments[j].start, segments[j].end)
            /\ \A k \in 1..Len(annotations) :
                  ~SpansIntersect(segments[i].start, segments[i].end,
                                  annotations[k].start, annotations[k].end)

\* ---------------------------------------------------------------------
\* Order of the highlighted segments
\* ---------------------------------------------------------------------

\* the positions in discovery order: explicit annotations in list order,
\* then potential matches, then pattern matches
DiscoveredPositions ==
    LET found == createAnnotationPositions(annotations) \o potentialPositions
    IN  found \o createRegexMatches(combinedText, regexPattern, found)

\* the highlighted segments, in order
Highlighted(segs) == SelectSeq(segs, LAMBDA seg : seg.highlighted # "false")

\* the place of position k among the positions in ascending order of start,
\* equal starts in discovery order
RankOf(positions, k) ==
    1 + Cardinality({j \in 1..Len(positions) :
                        \/ positions[j].start < positions[k].start
                        \/ positions[j].start = positions[k].start /\ j < k})

KindOf(position) == IF position.type = "annotation" THEN "true" ELSE position.type

\* every position is a highlighted segment of its kind, entity type and
\* text, at its place in ascending order of start, equal starts in
\* discovery order
DiscoveryOrderKept ==
    segDone /\ combinedText # <<>> =>
        LET positions == DiscoveredPositions
            marks == Highlighted(segments)
        IN  /\ Len(marks) = Len(positions)
            /\ \A k \in 1..Len(positions) :
                  LET mark == marks[RankOf(positions, k)]
                  IN  /\ mark.highlighted = KindOf(positions[k])
                      /\ mark.type = positions[k].entityType
                      /\ mark.text = substring(combinedText, positions[k].start,
                                               positions[k].end)

\* the spans of the highlighted segments are in ascending order of start
StartsAscend ==
    LET marks == Highlighted(segments)
    IN  \A n \in 1..(Len(marks) - 1) : marks[n].start <= marks[n + 1].start

\* C22: the highlighted segments processTextSegments returns are in
\* ascending order of span start whatever the order of the annotation list;
\* spans of equal start are in discovery order (explicit annotations in
\* list order, then potential spans, then pattern spans) and each keeps its
\* kind and entity type.
C22_AscendingDiscoveryOrder ==
    (segDone => StartsAscend) /\ DiscoveryOrderKept

\* ---------------------------------------------------------------------
\* Documents of a text
\* ---------------------------------------------------------------------

TitleIndexes(lines) == {i \in 1..Len(lines) : lines[i].kind = "title"}

\* the first line that is not blank is a title line
StartsWithTitle(lines) ==
    \E i \in TitleIndexes(lines) : \A j \in 1..(i - 1) : lines[j].kind = "blank"

\* the index of the k-th title line
NthTitle(lines, k) ==
    CHOOSE i \in TitleIndexes(lines) :
        Cardinality({j \in TitleIndexes(lines) : j < i}) = k - 1

\* the lines between the k-th title line and the next title line, or the
\* end of the text
BlockOf(lines, k) ==
    LET first == NthTitle(lines, k) + 1
        last == IF k < Cardinality(TitleIndexes(lines))
                THEN NthTitle(lines, k + 1) - 1 ELSE Len(lines)
    IN  SubSeq(lines, first, last)

\* the abstract of the abstract line of a block: of the last one if there
\* are several, empty if there is none
AbstractOfBlock(block) ==
    LET abstracts == SelectSeq(block, LAMBDA line : line.kind = "abstract")
    IN  IF abstracts = <<>> THEN <<>> ELSE abstracts[Len(abstracts)].fields[2]

\* the accepted annotation lines of a block, in order
AcceptedOfBlock(block) ==
    SelectSeq(block, LAMBDA line : line.kind = "annotation" /\ Len(line.fields) >= 5)

\* the document of the k-th title line
DocumentOfTitle(lines, k) ==
    LET accepted == AcceptedOfBlock(BlockOf(lines, k))
    IN  [id |-> lines[NthTitle(lines, k)].fields[1],
         title |-> lines[NthTitle(lines, k)].fields[2],
         abstract |-> AbstractOfBlock(BlockOf(lines, k)),
         annotations |-> [n \in 1..Len(accepted) |->
                             ParseAnnotationLine(accepted[n].fields)]]

\* C23: for a text whose first non-empty line is a title line,
\* parsePubtator returns exactly one document per title line, in file
\* order, each with the abstract of the abstract line and the annotations,
\* in file order, of the accepted annotation lines between its title line
\* and the next title line; the last document is returned whether or not a
\* blank line ends the text.
C23_OneDocumentPerTitle ==
    TextParsed /\ StartsWithTitle(codecLines) =>
        /\ codecParsed.status = "ok"
        /\ Len(codecParsed.docs) = Cardinality(TitleIndexes(codecLines))
        /\ \A k \in 1..Len(codecParsed.docs) :
              codecParsed.docs[k] = DocumentOfTitle(codecLines, k)

\* a text of two title lines that ends with an accepted annotation line, no
\* blank line after it, was parsed: the first document has the abstract,
\* the last one the annotation
C23_Witness ==
    /\ TextParsed
    /\ StartsWithTitle(codecLines)
    /\ Cardinality(TitleIndexes(codecLines)) = 2
    /\ codecLines[Len(codecLines)].kind = "annotation"
    /\ Len(codecLines[Len(codecLines)].fields) >= 5
    /\ Len(codecParsed.docs) = 2
    /\ codecParsed.docs[1].abstract = <<"B">>
    /\ codecParsed.docs[1].annotations = <<>>
    /\ Len(codecParsed.docs[2].annotations) = 1

\* ---------------------------------------------------------------------
\* Lines before the first title line
\* ---------------------------------------------------------------------

\* line i is an abstract line, or an annotation line of at least 5 fields,
\* and no title line comes before it
IsOrphanLine(lines, i) ==
    /\ \/ lines[i].kind = "abstract"
       \/ lines[i].kind = "annotation" /\ Len(lines[i].fields) >= 5
    /\ \A j \in 1..(i - 1) : lines[j].kind # "title"

\* C24: parsePubtator of a text in which an abstract line, or an annotation
\* line of at least 5 fields, comes before any title line returns no
\* document set: it throws, and nothing of the text, no document and no
\* entity type, reaches the caller.
C24_OrphanLineThrows ==
    TextParsed /\ (\E i \in 1..Len(codecLines) : IsOrphanLine(codecLines, i)) =>
        /\ codecParsed.status = "throws"
        /\ codecParsed.docs = <<>>
        /\ codecParsed.entityTypes = <<>>

\* a text of an accepted annotation line, then a title line with an
\* abstract line, was parsed and the parse threw
C24_Witness ==
    /\ TextParsed
    /\ Len(codecLines) >= 3
    /\ IsOrphanLine(codecLines, 1)
    /\ codecLines[1].kind = "annotation"
    /\ codecLines[2].kind = "title"
    /\ codecLines[3].kind = "abstract"
    /\ codecParsed.status = "throws"

\* ---------------------------------------------------------------------
\* Offsets of the annotation segments
\* ---------------------------------------------------------------------

\* every annotation lies in the text, start before end
WithinText(annos, text) ==
    \A k \in 1..Len(annos) :
        0 <= annos[k].start /\ annos[k].start < annos[k].end
            /\ annos[k].end <= Len(text)

\* no two annotations of the list overlap
PairwiseApart(annos) ==
    \A i, j \in 1..Len(annos) :
        i # j => ~SpansIntersect(annos[i].start, annos[i].end,
                                 annos[j].start, annos[j].end)

\* C25: for annotations that lie in the text, start before end, and do not
\* overlap pairwise, every annotation segment processTextSegments returns
\* reports the stored start and end of the annotation it was made from, so
\* that the lookup by (start, end) of renderHighlightedText finds that
\* annotation; the same text annotated twice fewer than 5 characters apart
\* included.
C25_SegmentReportsStoredOffsets ==
    segDone /\ WithinText(annotations, combinedText) /\ PairwiseApart(annotations) =>
        \A k \in 1..Len(annotations) :
            LET mark == Highlighted(segments)[RankOf(DiscoveredPositions, k)]
            IN  /\ mark.highlighted = "true"
                /\ mark.start = annotations[k].start
                /\ mark.end = annotations[k].end

\* ---------------------------------------------------------------------
\* The current document index
\* ---------------------------------------------------------------------

\* the current document index is the index of a document
IndexInRange == 0 <= currentDocIndex /\ currentDocIndex < Len(documents)

\* C26: whenever there are documents, 0 <= currentDocIndex < number of
\* documents, after any sequence of loads, Previous, Next, navigation by id,
\* additions, edits and deletions; and a load always resets the index to 0.
C26_IndexInRange ==
    /\ documents # <<>> => IndexInRange
    /\ lastOp.op = "onload" => currentDocIndex = 0

\* a file of one document was loaded while the second document of another
\* file was the current one
C26_Witness ==
    /\ lastOp.op = "onload"
    /\ lastOp.index = 1
    /\ Len(documents) = 1
    /\ currentDocIndex = 0

\* ---------------------------------------------------------------------
\* The file name and the documents
\* ---------------------------------------------------------------------

\* the ids of the documents, in order
IdsOf(docs) == [i \in 1..Len(docs) |-> docs[i].id]

\* the documents are those of the content of the file, edits of their
\* annotations apart
LoadedFrom(file) == IdsOf(documents) = IdsOf(parsePubtator(FileContent(file)).docs)

\* C27: after any interleaving of uploads and read completions,
\* originalFilename is the name of the file whose content the loaded
\* documents come from: two uploads whose reads complete in the opposite
\* order do not leave the documents of one file with the name of the other.
C27_FilenameOfLoadedDocuments ==
    reads = {} /\ documents # <<>> =>
        \E file \in FileNames : LoadedFrom(file) /\ originalFilename = file

\* ---------------------------------------------------------------------
\* Completeness of the potential matches
\* ---------------------------------------------------------------------

\* a span discovered by processTextSegments, of any kind, meets [s, e)
MeetsDiscovered(s, e) ==
    \E n \in 1..Len(DiscoveredPositions) :
        SpansIntersect(s, e, DiscoveredPositions[n].start, DiscoveredPositions[n].end)

\* C28: the potential matches are complete: every occurrence, letter case
\* ignored, of the text of an eligible annotation intersects at least one
\* highlighted span; an occurrence that overlaps an earlier occurrence of
\* the same text, discarded because it intersected an explicit span,
\* included.
C28_PotentialComplete ==
    segDone =>
        \A k \in EligibleAnnotations :
            \A i \in Occurrences(KeyOf(k)) :
                MeetsDiscovered(i, i + Len(KeyOf(k)))

\* ---------------------------------------------------------------------
\* What an addition, an edit and a deletion leave alone
\* ---------------------------------------------------------------------

\* the handlers that call addAnnotation, editAnnotation or deleteAnnotation,
\* by the name each one leaves in lastOp: handleAnnotationSubmit, RowSave,
\* RowDelete, handleRightClickDelete, handleDeleteAnnotation
StoreOps ==
    {"add", "addThrows", "submitEdit", "rowSave", "rowDelete", "rightClickDelete",
     "dialogDelete"}

\* the step is one of these handlers
StoreStep == lastOp'.op \in StoreOps

\* the step is a submit of the dialog with a type that is not known: the
\* handler calls addNewEntityType before the addition or the edit
RegisterStep ==
    \E formData \in FormAnnotations :
        /\ handleAnnotationSubmit(formData)
        /\ ~ArrayIncludes(knownEntityTypes, formData.type)

\* the documents are the same in number and order, each with its id, title
\* and abstract, and all but the one of the index with its annotations
SameButAnnotationsAt(old, new, index) ==
    /\ Len(new) = Len(old)
    /\ \A k \in 1..Len(old) :
          /\ new[k].id = old[k].id
          /\ new[k].title = old[k].title
          /\ new[k].abstract = old[k].abstract
          /\ k # index + 1 => new[k].annotations = old[k].annotations

\* C29: addAnnotation, editAnnotation and deleteAnnotation act only on the
\* annotation list of the current document: the number and order of the
\* documents, the id, title and abstract of every document, the annotation
\* lists of the other documents, the current document index and the known
\* entity types are unchanged. Checked on every handler that calls them;
\* the known entity types change only by the call of addNewEntityType the
\* submit of the dialog makes for a type that is not known.
C29_OnlyCurrentAnnotations ==
    [][/\ StoreStep =>
             /\ SameButAnnotationsAt(documents, documents', currentDocIndex)
             /\ currentDocIndex' = currentDocIndex
       /\ StoreStep /\ ~RegisterStep => knownEntityTypes' = knownEntityTypes]_vars

\* an annotation was just added to the second of two documents, the first
\* one keeps its annotation
C29_Witness ==
    /\ lastOp.op = "add"
    /\ currentDocIndex = 1
    /\ Len(documents) = 2
    /\ Len(documents[1].annotations) = 1
    /\ documents[2].annotations = <<lastOp.annotation>>

\* ---------------------------------------------------------------------
\* The segments as a partition of the text
\* ---------------------------------------------------------------------

\* the segments, by the offsets they report, are a partition of the text:
\* each one has the text of its span, the first starts at 0, each starts
\* where the one before ends, the last ends at the length of the text, none
\* is empty and no two plain segments are adjacent
IsExactPartition(segs, text) ==
    /\ segs # <<>>
    /\ segs[1].start = 0
    /\ segs[Len(segs)].end = Len(text)
    /\ \A i \in 1..Len(segs) :
          /\ segs[i].start < segs[i].end
          /\ segs[i].text = substring(text, segs[i].start, segs[i].end)
    /\ \A i \in 1..(Len(segs) - 1) :
          /\ segs[i + 1].start = segs[i].end
          /\ ~(segs[i].highlighted = "false" /\ segs[i + 1].highlighted = "false")

\* C30: when the annotations lie in the text, start before end, and do not
\* overlap pairwise, and the pattern matches no empty string, the segments
\* processTextSegments returns are an exact partition of the combined text
\* by their reported offsets.
C30_ExactPartition ==
    /\ segDone
    /\ combinedText # <<>>
    /\ WithinText(annotations, combinedText)
    /\ PairwiseApart(annotations)
    => IsExactPartition(segments, combinedText)

====
